---- MODULE Spec2Model ----
(***************************************************************************)
(* A model of the key-store transaction layer, the cache layer and the     *)
(* pre-keys (src/Utils/auth-utils.ts), of relayMessage, getUSyncDevices   *)
(* and refreshMediaConn (src/Socket/messages-send.ts) and of the          *)
(* per-bucket job queue                                                    *)
(* (WASignalGroup/queue_job.js).                                           *)
(*                                                                         *)
(* JavaScript runs one callback at a time: every action below is the code  *)
(* that runs between two suspension points (an await that really yields),  *)
(* so an action is atomic exactly where the code is.                       *)
(***************************************************************************)
EXTENDS Integers, Sequences, FiniteSets, TLC

(***************************************************************************)
(* Bounds of the model.                                                    *)
(***************************************************************************)
\* jobs ever enqueued (all buckets together)
MaxJobs == 3
\* stands for _gcLimit (queue_job.js:11, 10000 there), scaled so that the
\* head splice happens within MaxJobs jobs
gcLimit == 2

\* the maxCommitRetries option of addTransactionCapability (auth-utils.ts:88)
maxCommitRetries == 3
\* outermost transaction calls made, all callers together
MaxTxn == 2
\* get and set calls made on the store, all callers together
MaxOps == 2
\* nested transaction calls made, all callers together
MaxNested == 1

\* <device> entries in the device list of one user of a usync response
MaxDevs == 2

\* getUSyncDevices calls made, all callers together
MaxUSyncCalls == 2

\* get and set calls made on the layered store
MaxCacheOps == 3

\* getNextPreKeys calls made
MaxPreKeyCalls == 3
\* the largest count a getNextPreKeys call is given
MaxCount == 5
\* the longest device list a getUSyncDevices call returns to relayMessage
MaxAdditional == 2

\* refreshMediaConn calls made, all callers together
MaxMediaCalls == 3
\* media_conn queries issued
MaxMediaQueries == 2
\* the time the clock reaches, in seconds
MaxMediaTime == 2

Buckets == {"b1", "b2"}
JobIds == 1..MaxJobs

\* concurrent async callers of the key store
Tasks == {"t1", "t2"}
\* (type, id) pairs of the key store
Keys == {"k1", "k2"}
\* device jids
Devices == {"d1", "d2"}

\* A cell of a key -> value map: <<>> is undefined, <<v>> holds v.
None == <<>>
Some(v) == <<v>>
NoData == [k \in Keys |-> None]
\* Object.keys(data).length > 0
NonEmpty(data) == \E k \in Keys : data[k] # None
\* { ...base, ...data } and Object.assign(base, data)
Merge(base, data) == [k \in Keys |-> IF data[k] # None THEN data[k] ELSE base[k]]
Only(data, ids) == [k \in Keys |-> IF k \in ids THEN data[k] ELSE None]

Min(a, b) == IF a < b THEN a ELSE b

IsPrefix(s, t) == Len(s) <= Len(t) /\ SubSeq(t, 1, Len(s)) = s

VARIABLES
    \* ---- job queue (queue_job.js) ----
    queueAsyncBuckets,  \* bucket -> the queue array (<<>> when the bucket has no entry)
    hasBucket,          \* the buckets that have an entry in _queueAsyncBuckets
    offt, limit, idx,   \* the locals of each bucket's running _asyncQueueExecutor
    job,                \* job id -> the job's bucket, work, timer and promises
    nextJob,            \* the id the next enqueued job gets
    enqueuedLog,        \* history: bucket -> job ids in the order they were enqueued
    startedLog,         \* history: bucket -> job ids in the order their work was started
    splices,            \* history: bucket -> number of head splices performed
    executors           \* history: bucket -> the _asyncQueueExecutor calls of the
                        \* bucket's queues that have not returned

VARIABLES
    \* ---- transaction layer (addTransactionCapability) ----
    store,                   \* the underlying store `state`: key -> cell
    transactionsInProgress,
    transactionCache,        \* key -> cell
    mutations,               \* key -> cell
    dbQueriesInTransaction,
    task,                    \* caller -> its position and locals (see NoTask)
    budget,                  \* the calls made so far, against the bounds
    \* ---- relayMessage (messages-send.ts) ----
    relay,                   \* caller -> the locals of its relayMessage call (see NoRelay)
    skdmSent                 \* history: group -> the devices sent a stanza with a <to> node
                             \* carrying the group's sender-key distribution message

VARIABLES
    \* ---- extractDeviceJids (auth-utils.ts) ----
    xin,                     \* the arguments: the usync response, myJid decoded, excludeZeroDevices
    xout,                    \* <<>> before the call, <<extracted>> after it
    \* ---- getUSyncDevices (messages-send.ts) ----
    userDevicesCache,        \* user -> cell: the cached (user, device) pairs
    usync,                   \* caller -> the locals of its getUSyncDevices call (see NoUSync)
    usyncCalls,              \* the getUSyncDevices calls made so far, against the bound
    \* ---- makeCacheableSignalKeyStore (auth-utils.ts) ----
    cache,                   \* unique id -> cell: the NodeCache of the cache layer
    backing,                 \* <<type, id>> -> cell: the store the cache layer wraps
    cop,                     \* the client's get or set call on the layered store (see NoOp)
    lastSet,                 \* history: <<type, id>> -> <<v>> when the last set of the
                             \* key has completed, with v; <<>> else
    lastMiss,                \* history: <<type, id>> -> TRUE when the last call of the layer
                             \* on the key was a get whose fetch found no value
    lastFailed,              \* history: <<type, id>> -> <<v>> when the last write of the
                             \* key was a set of the layer, with v, whose store.set threw
    cacheOps,                \* the calls made so far, on the layer and on the wrapped
                             \* store, against the bound
    \* ---- pre-keys (auth-utils.ts) ----
    creds,                   \* nextPreKeyId and firstUnuploadedPreKeyId of the creds
    pk,                      \* the getNextPreKeys call (see NoPk)
    issued,                  \* history: the ids below the initial nextPreKeyId and the
                             \* ids generated by the calls that returned
    reissued,                \* history: the ids a returned call generated that were issued
    pkCalls,                 \* the calls made so far, against the bound
    \* ---- relayMessage, the stanza it builds (messages-send.ts) ----
    send,                    \* the relayMessage call and its locals (see NoSend)
    \* ---- refreshMediaConn (messages-send.ts) ----
    mediaConn,               \* the variable: 0 (undefined) or the promise it refers to
    promise,                 \* promise -> its state (see NoPromise)
    mcall,                   \* caller -> its refreshMediaConn call (see NoMediaCall)
    mnow,                    \* new Date().getTime(), in seconds
    mediaQueries,            \* the media_conn queries issued so far
    mediaCalls               \* the calls made so far, against the bound

queueVars == <<queueAsyncBuckets, hasBucket, offt, limit, idx, job, nextJob,
               enqueuedLog, startedLog, splices, executors>>

txVars == <<store, transactionsInProgress, transactionCache, mutations,
            dbQueriesInTransaction, task, budget>>

relayVars == <<relay, skdmSent>>

extractVars == <<xin, xout>>

\* the variables of the parts other than the queue, the transaction layer
\* and relayMessage
usyncVars == <<userDevicesCache, usync, usyncCalls>>

cacheVars == <<cache, backing, cop, lastSet, lastMiss, lastFailed, cacheOps>>

preKeyVars == <<creds, pk, issued, reissued, pkCalls>>

stanzaVars == <<send>>

mediaVars == <<mediaConn, promise, mcall, mnow, mediaQueries, mediaCalls>>

auxVars == <<extractVars, usyncVars, cacheVars, preKeyVars, stanzaVars, mediaVars>>

vars == <<queueVars, txVars, relayVars, auxVars>>

(***************************************************************************)
(* Initial states                                                          *)
(***************************************************************************)
NoJob == [bucket |-> "", work |-> "unstarted", wt |-> "none",
          timer |-> "unset", promise |-> "none"]

InitQueue ==
    /\ queueAsyncBuckets = [b \in Buckets |-> <<>>]
    /\ hasBucket = {}
    /\ offt = [b \in Buckets |-> 0]
    /\ limit = [b \in Buckets |-> 0]
    /\ idx = [b \in Buckets |-> 0]
    /\ job = [j \in JobIds |-> NoJob]
    /\ nextJob = 1
    /\ enqueuedLog = [b \in Buckets |-> <<>>]
    /\ startedLog = [b \in Buckets |-> <<>>]
    /\ splices = [b \in Buckets |-> 0]
    /\ executors = [b \in Buckets |-> 0]

NoCall == [ids |-> {}, fetch |-> {}, tx |-> FALSE]
NoGot == [op |-> 0, ids |-> {}, res |-> NoData]

\* One caller of the store:
\*   pc        where it is suspended: "idle" (in no call), "work" (in the work
\*             function of its innermost transaction), "fetch" (state.get in
\*             flight), "dset" (state.set of a set outside transactions in
\*             flight), "commit" (state.set of the commit loop in flight),
\*             "throw" (a nested transaction call of it has rethrown and the
\*             `await work()` of the enclosing call has not resumed yet)
\*   depth     its transaction calls in progress
\*   call      the arguments of its get in flight
\*   payload   the data of its state.set in flight
\*   tries     `tries` of its commit loop
\*   got       what its last get returned (op numbers the get calls)
\*   outcome   how its last outermost transaction call ended
\*   epoch, wrote, wroteAt, setCalls, lastCommit are history: the number of its
\*   outermost transaction, the cells it set in it and at which depths, the
\*   state.set calls of its commit loop and how that loop ended
\*   handed    (history) the ids whose value set in its outermost transaction
\*             has been an argument of a state.set call of a commit loop
NoTask == [pc |-> "idle", depth |-> 0, call |-> NoCall, payload |-> NoData,
           tries |-> 0, got |-> NoGot, outcome |-> "none", epoch |-> 0,
           wrote |-> NoData, wroteAt |-> {}, setCalls |-> 0, lastCommit |-> "none",
           handed |-> {}]

\* the locals of a relayMessage call (messages-send.ts lines 383-500); at is
\* its position, to the devices of the <to> nodes built, skmsg the number of
\* skmsg <enc> nodes built, rowBefore (history) the group's row in the
\* underlying store when the call was made
NoRelay == [at |-> "none", jid |-> "", participant |-> "none", devices |-> {},
            senderKeyMap |-> {}, senderKeyJids |-> {}, to |-> {}, skmsg |-> 0,
            rowBefore |-> {}]

\* The state after addTransactionCapability(state, ...) returned, lines 90-94.
InitTx ==
    /\ transactionsInProgress = 0
    /\ transactionCache = NoData
    /\ mutations = NoData
    /\ dbQueriesInTransaction = 0
    /\ task = [t \in Tasks |-> NoTask]
    /\ budget = [txns |-> 0, nested |-> 0, ops |-> 0]
    /\ relay = [t \in Tasks |-> NoRelay]

\* user parts of jids
Users == {"u1", "u2"}

\* the locals of a getUSyncDevices call (messages-send.ts lines 188-264):
\* remaining are the jids the loop of line 197 has yet to visit, users the
\* user list of the query, deviceResults the result so far, ret how the last
\* call ended and result what it returned. History: hit and fromCache are the
\* users for which line 201 found a cache entry and the devices found
\* there, miss the users for which it found none, queries the usync queries
\* sent, queried the user list of the last one, extracted what
\* extractDeviceJids returned, userNodes the <user> nodes pushed per user,
\* cachedPushes the times the cached devices of a user were pushed to
\* deviceResults
NoUSync == [pc |-> "idle", jids |-> {}, useCache |-> FALSE, ignoreZeroDevices |-> FALSE,
            remaining |-> {}, users |-> {}, deviceResults |-> {},
            ret |-> "none", result |-> {},
            hit |-> {}, fromCache |-> {}, queries |-> 0, queried |-> {}, extracted |-> {},
            miss |-> {}, userNodes |-> [u \in Users |-> 0],
            cachedPushes |-> [u \in Users |-> 0]]

\* line 86: the cache starts empty
InitUSync ==
    /\ userDevicesCache = [u \in Users |-> None]
    /\ usync = [t \in Tasks |-> NoUSync]
    /\ usyncCalls = 0

\* the key spaces and ids of the layered store, and the values set (null
\* deletes)
Types == {"sender-key", "sender-key-memory"}
Ids == {"x", "y"}
Values == {"a", "null"}
\* the values another holder of the wrapped store writes to it
DirectValues == {"c"}
TypedIds == Types \X Ids

getUniqueIdWithoutType(type, id) == id

\* getUniqueId, auth-utils.ts line 27
getUniqueId(type, id) == type \o "." \o id

UniqueIds == {getUniqueId(k[1], k[2]) : k \in TypedIds} \cup Ids

\* the client's call: kind is "get" or "set", data the argument of a set (id
\* -> cell), idsToFetch and got the locals of a get, ret how the call ended
NoOp == [pc |-> "idle", kind |-> "none", type |-> "", ids |-> {},
         data |-> [id \in Ids |-> None], idsToFetch |-> {},
         got |-> [id \in Ids |-> None], ret |-> "none",
         missed |-> {}, fetched |-> [id \in Ids |-> None]]

\* lines 21-25: the cache starts empty; the wrapped store holds one value
InitCache ==
    /\ cache = [u \in UniqueIds |-> None]
    /\ backing = [k \in TypedIds |-> IF k = <<"sender-key", "x">> THEN Some("b") ELSE None]
    /\ cop = NoOp
    /\ lastSet = [k \in TypedIds |-> <<>>]
    /\ lastMiss = [k \in TypedIds |-> FALSE]
    /\ lastFailed = [k \in TypedIds |-> None]
    /\ cacheOps = 0

\* the getNextPreKeys call: newPreKeys are the ids of the generated pairs,
\* update the returned update, before the creds the call was given, setCalls
\* the keys.set calls it made, ret how it ended
NoPk == [pc |-> "idle", count |-> 0, newPreKeys |-> {}, lastPreKeyId |-> 0,
         update |-> [nextPreKeyId |-> 0, firstUnuploadedPreKeyId |-> 0],
         before |-> [nextPreKeyId |-> 0, firstUnuploadedPreKeyId |-> 0],
         setCalls |-> 0, ret |-> "none"]

\* creds as initAuthCreds makes them (lines 185-186): both ids 1
InitPreKeys ==
    /\ creds = [nextPreKeyId |-> 1, firstUnuploadedPreKeyId |-> 1]
    /\ pk = NoPk
    /\ issued = {}
    /\ reissued = {}
    /\ pkCalls = 0

\* jidDecode(jid).device is undefined for a jid that names no device
Undefined == -1

\* The decoded jids: the sender is meUser on the phone-number server and
\* meLidUser on the lid server (creds.me.id and creds.me.lid); u2 and l2 are
\* another user; g is a group, n a newsletter.
meUser == "u1"
meLidUser == "l1"
NoJid == [user |-> "", server |-> "", device |-> Undefined]
Jid(user, server, device) == [user |-> user, server |-> server, device |-> device]
statusJid == Jid("status", "broadcast", Undefined)
Destinations ==
    {Jid("u1", "s.whatsapp.net", Undefined), Jid("u2", "s.whatsapp.net", Undefined),
     Jid("l1", "lid", Undefined), Jid("l2", "lid", Undefined),
     Jid("g", "g.us", Undefined), Jid("n", "newsletter", Undefined), statusJid}

\* options.participant: absent, or the jid of one device
ParticipantOptions ==
    {None} \cup {Some(Jid(u, "s.whatsapp.net", 2)) : u \in {"u1", "u2"}}

\* additionalAttributes.category
Categories == {"none", "peer"}

\* the relayMessage call: its arguments, its locals by their names in the
\* code, the stanza handed to sendNode, and keysSet, the sender-key-memory
\* rows the call has passed to authState.keys.set
NoSend == [pc |-> "idle", jid |-> NoJid, participant |-> None, category |-> "none",
           additionalNodes |-> FALSE,
           devices |-> <<>>, senderKeyJids |-> <<>>, meJids |-> <<>>, otherJids |-> <<>>,
           participants |-> <<>>, binaryNodeContent |-> <<>>,
           shouldIncludeDeviceIdentity |-> FALSE, keysSet |-> {}, stanza |-> None]

InitStanza == send = NoSend

\* concurrent async callers of refreshMediaConn
MediaCallers == {"c1", "c2"}
\* the promises the calls create, in the order of their creation
Promises == 1..MaxMediaQueries
\* the ttl attribute of a media_conn node, in seconds
Ttls == {0, 1}

\* A promise: status "none" (not created yet), "pending", "fulfilled" (with
\* the node's fetchDate and ttl) or "rejected".
NoPromise == [status |-> "none", fetchDate |-> 0, ttl |-> 0]

\* A refreshMediaConn call: pc "idle" (no call), "media" (at `await
\* mediaConn`, line 93), "result" (the returned promise not settled yet);
\* awaiting is the promise awaited (0: undefined); afterFailure (history)
\* tells that mediaConn referred to a rejected promise when the call was
\* made; outcome and result are how the last call ended and the promise
\* whose node it returned.
NoMediaCall == [pc |-> "idle", forceGet |-> FALSE, awaiting |-> 0,
                afterFailure |-> FALSE, outcome |-> "none", result |-> 0]

\* line 91: `let mediaConn` is declared without a value
InitMedia ==
    /\ mediaConn = 0
    /\ promise = [p \in Promises |-> NoPromise]
    /\ mcall = [c \in MediaCallers |-> NoMediaCall]
    /\ mnow = 0
    /\ mediaQueries = 0
    /\ mediaCalls = 0

\* the parts a specification does not exercise stay as they are here
InitAux ==
    /\ xin = [resp |-> <<>>, my |-> [user |-> "u1", device |-> 1], excl |-> FALSE]
    /\ xout = <<>>
    /\ InitUSync
    /\ InitCache
    /\ InitPreKeys
    /\ InitStanza
    /\ InitMedia

\* The underlying store holds a value for k1 and none for k2.
Init ==
    /\ InitQueue
    /\ InitTx
    /\ InitAux
    /\ store = [k \in Keys |-> IF k = "k1" THEN Some(<<"init", 0>>) ELSE None]
    /\ skdmSent = [k \in Keys |-> {}]

\* The underlying store holds sender-key-memory rows: the row of group k1
\* marks d1, which was sent the distribution message earlier; the group k2
\* has no row.
InitOfRelay ==
    /\ InitQueue
    /\ InitTx
    /\ InitAux
    /\ store = [k \in Keys |-> IF k = "k1" THEN Some({"d1"}) ELSE None]
    /\ skdmSent = [k \in Keys |-> IF k = "k1" THEN {"d1"} ELSE {}]


(***************************************************************************)
(* Job queue: WASignalGroup/queue_job.js                                   *)
(***************************************************************************)
\* The executor's synchronous run from the for-loop test `i < limit` (line 41)
\* to its next await (line 44: the job to start is queue[i]) or to cleanup()
\* (line 61). Array indices are 0-based as in the code; q[i + 1] is queue[i].
RECURSIVE ExecutorRunSkipping(_, _, _, _, _)
ExecutorRunSkipping(q, o, l, i, n) ==
    IF i < l
    THEN [queue |-> q, offt |-> o, limit |-> l, idx |-> i,
          start |-> q[i + 1], done |-> FALSE, splices |-> n]
    ELSE IF l < Len(q)
         THEN IF l >= gcLimit
              THEN LET q2 == SubSeq(q, l + 1, Len(q))
                   IN  ExecutorRunSkipping(q2, l, Min(Len(q2), gcLimit), l, n + 1)
              ELSE ExecutorRunSkipping(q, l, Min(Len(q), gcLimit), l, n)
         ELSE [queue |-> q, offt |-> o, limit |-> l, idx |-> i,
               start |-> 0, done |-> TRUE, splices |-> n]

RECURSIVE ExecutorRun(_, _, _, _, _)
ExecutorRun(q, o, l, i, n) ==
    IF i < l
    THEN [queue |-> q, offt |-> o, limit |-> l, idx |-> i,
          start |-> q[i + 1], done |-> FALSE, splices |-> n]
    ELSE IF l < Len(q)
         THEN IF l >= gcLimit
              THEN LET q2 == SubSeq(q, l + 1, Len(q))
                   IN  ExecutorRun(q2, 0, Min(Len(q2), gcLimit), 0, n + 1)
              ELSE ExecutorRun(q, l, Min(Len(q), gcLimit), l, n)
         ELSE [queue |-> q, offt |-> o, limit |-> l, idx |-> i,
               start |-> 0, done |-> TRUE, splices |-> n]

\* withTimeout(job.awaitable, 15000): arms the timer and calls fn() at once.
StartWork(jobs, j) ==
    [jobs EXCEPT ![j].work = "running", ![j].wt = "pending", ![j].timer = "armed"]

\* A variant of ApplyRun in which the executor returns without cleanup().
ApplyRunKeepingEntry(b, r, jobs) ==
    /\ queueAsyncBuckets' = [queueAsyncBuckets EXCEPT ![b] = r.queue]
    /\ hasBucket' = hasBucket \cup {b}
    /\ offt' = [offt EXCEPT ![b] = IF r.done THEN 0 ELSE r.offt]
    /\ limit' = [limit EXCEPT ![b] = IF r.done THEN 0 ELSE r.limit]
    /\ idx' = [idx EXCEPT ![b] = IF r.done THEN 0 ELSE r.idx]
    /\ job' = IF r.done THEN jobs ELSE StartWork(jobs, r.start)
    /\ startedLog' = [startedLog EXCEPT ![b] = IF r.done THEN @ ELSE Append(@, r.start)]
    /\ splices' = [splices EXCEPT ![b] = r.splices]

\* The effect of an executor run r of bucket b on the queue state.
ApplyRun(b, r, jobs) ==
    /\ queueAsyncBuckets' = [queueAsyncBuckets EXCEPT ![b] = IF r.done THEN <<>> ELSE r.queue]
    /\ hasBucket' = IF r.done THEN hasBucket \ {b} ELSE hasBucket \cup {b}
    /\ offt' = [offt EXCEPT ![b] = IF r.done THEN 0 ELSE r.offt]
    /\ limit' = [limit EXCEPT ![b] = IF r.done THEN 0 ELSE r.limit]
    /\ idx' = [idx EXCEPT ![b] = IF r.done THEN 0 ELSE r.idx]
    /\ job' = IF r.done THEN jobs ELSE StartWork(jobs, r.start)
    /\ startedLog' = [startedLog EXCEPT ![b] = IF r.done THEN @ ELSE Append(@, r.start)]
    /\ splices' = [splices EXCEPT ![b] = r.splices]

\* module.exports(bucket, awaitable): push the job; when the bucket had no
\* entry, create it and start an executor, which runs up to its first await.
Enqueue(b) ==
    /\ nextJob <= MaxJobs
    /\ LET j == nextJob
           jobs == [job EXCEPT ![j] = [NoJob EXCEPT !.bucket = b, !.promise = "pending"]]
           q == Append(queueAsyncBuckets[b], j)
       IN  /\ nextJob' = nextJob + 1
           /\ enqueuedLog' = [enqueuedLog EXCEPT ![b] = Append(@, j)]
           /\ UNCHANGED <<txVars, relayVars, auxVars>>
           /\ IF b \notin hasBucket
              THEN LET r == ExecutorRun(q, 0, Min(Len(q), gcLimit), 0, splices[b])
                   IN  /\ ApplyRun(b, r, jobs)
                       /\ executors' = [executors EXCEPT
                                            ![b] = IF r.done THEN @ ELSE @ + 1]
              ELSE /\ queueAsyncBuckets' = [queueAsyncBuckets EXCEPT ![b] = q]
                   /\ job' = jobs
                   /\ UNCHANGED <<hasBucket, offt, limit, idx, startedLog, splices,
                                  executors>>

\* fn() settles: the then/catch callback of withTimeout clears the timer and
\* settles the withTimeout promise (a no-op when the timer already rejected it).
WorkSettles(j, how) ==
    /\ job[j].work = "running"
    /\ job' = [job EXCEPT ![j].work = how,
                          ![j].timer = IF @ = "armed" THEN "cleared" ELSE @,
                          ![j].wt = IF @ = "pending" THEN how ELSE @]
    /\ UNCHANGED <<queueAsyncBuckets, hasBucket, offt, limit, idx, nextJob,
                   enqueuedLog, startedLog, splices, executors, txVars, relayVars,
                   auxVars>>

TimerFiresWithoutReject(j) ==
    /\ job[j].timer = "armed"
    /\ job' = [job EXCEPT ![j].timer = "fired"]
    /\ UNCHANGED <<queueAsyncBuckets, hasBucket, offt, limit, idx, nextJob,
                   enqueuedLog, startedLog, splices, executors, txVars, relayVars,
                   auxVars>>

\* The 15 s timer of withTimeout fires: reject(new Error('Job timed out')).
\* Nothing stops fn(): its work stays in progress.
TimerFires(j) ==
    /\ job[j].timer = "armed"
    /\ job' = [job EXCEPT ![j].timer = "fired", ![j].wt = "rejected"]
    /\ UNCHANGED <<queueAsyncBuckets, hasBucket, offt, limit, idx, nextJob,
                   enqueuedLog, startedLog, splices, executors, txVars, relayVars,
                   auxVars>>

\* The executor resumes from `await withTimeout(...)`: settles the job's
\* promise, then runs on to its next await or to cleanup().
ExecutorResumes(b) ==
    /\ b \in hasBucket
    /\ LET q == queueAsyncBuckets[b]
           j == q[idx[b] + 1]
           r == ExecutorRun(q, offt[b], limit[b], idx[b] + 1, splices[b])
       IN  /\ job[j].wt \in {"resolved", "rejected"}
           /\ ApplyRun(b, r, [job EXCEPT ![j].promise = job[j].wt])
           /\ executors' = [executors EXCEPT ![b] = IF r.done THEN @ - 1 ELSE @]
    /\ UNCHANGED <<nextJob, enqueuedLog, txVars, relayVars, auxVars>>

NextQueue ==
    \/ \E b \in Buckets : Enqueue(b)
    \/ \E j \in JobIds : WorkSettles(j, "resolved")
    \/ \E j \in JobIds : WorkSettles(j, "rejected")
    \/ \E j \in JobIds : TimerFires(j)
    \/ \E b \in Buckets : ExecutorResumes(b)

SpecQueue == Init /\ [][NextQueue]_vars

\* The event loop runs every due timer and every continuation of a settled
\* promise; nothing makes a job's own work finish.
FairSpecQueue ==
    /\ SpecQueue
    /\ \A j \in JobIds : WF_vars(TimerFires(j))
    /\ \A b \in Buckets : WF_vars(ExecutorResumes(b))

(***************************************************************************)
(* Transaction layer: addTransactionCapability, src/Utils/auth-utils.ts    *)
(*                                                                         *)
(* A step that changes nothing but the caller's own position (its work     *)
(* returning or throwing, a failed state.set before the delay) is taken    *)
(* together with the step of the same caller that follows it.              *)
(***************************************************************************)
isInTransaction == transactionsInProgress > 0

\* The value a caller writes: its name and, inside its own transaction, the
\* number of that transaction (0 outside).
Tag(t) == <<t, IF task[t].depth > 0 THEN task[t].epoch ELSE 0>>

\* Where a caller continues after a get or set: in its work, or outside.
Back(t) == IF task[t].depth > 0 THEN "work" ELSE "idle"

\* The finally block, lines 161-168, and the end of the call, which returns
\* (how = "resolved") or rethrows (how = "rejected"); tk is the caller's
\* record as the code before the finally block left it. When the call was a
\* nested one the caller goes on at `next`: in the outer work, or throwing.
Finally(t, tk, how, next) ==
    /\ transactionsInProgress' = transactionsInProgress - 1
    /\ IF transactionsInProgress - 1 = 0
       THEN /\ transactionCache' = NoData
            /\ mutations' = NoData
            /\ dbQueriesInTransaction' = 0
       ELSE UNCHANGED <<transactionCache, mutations, dbQueriesInTransaction>>
    /\ task' = [task EXCEPT ![t] = [tk EXCEPT
                  !.depth = @ - 1,
                  !.pc = IF tk.depth = 1 THEN "idle" ELSE next,
                  !.outcome = IF tk.depth = 1 THEN how ELSE @]]

\* get(type, ids), lines 99-122, up to its await of state.get or, when every
\* id is cached, to its return.
Get(t, ids) ==
    /\ task[t].pc \in {"idle", "work"}
    /\ budget.ops < MaxOps
    /\ budget' = [budget EXCEPT !.ops = @ + 1]
    /\ IF isInTransaction
       THEN LET idsRequiringFetch == {id \in ids : transactionCache[id] = None}
            IN  IF idsRequiringFetch # {}
                THEN /\ dbQueriesInTransaction' = dbQueriesInTransaction + 1
                     /\ task' = [task EXCEPT ![t].pc = "fetch",
                                             ![t].call = [ids |-> ids, tx |-> TRUE,
                                                          fetch |-> idsRequiringFetch]]
                ELSE /\ task' = [task EXCEPT
                                   ![t].got = [op |-> budget.ops + 1, ids |-> ids,
                                               res |-> Only(transactionCache, ids)]]
                     /\ UNCHANGED dbQueriesInTransaction
       ELSE /\ task' = [task EXCEPT ![t].pc = "fetch",
                                    ![t].call = [ids |-> ids, tx |-> FALSE, fetch |-> ids]]
            /\ UNCHANGED dbQueriesInTransaction
    /\ UNCHANGED <<store, transactionsInProgress, transactionCache, mutations, queueVars, relayVars, auxVars>>

\* state.get returns: lines 107-118 of a get made in a transaction (the
\* fetched values are assigned over the transaction cache), line 120 otherwise.
FetchDone(t) ==
    /\ task[t].pc = "fetch"
    /\ LET c == task[t].call
           result == Only(store, c.fetch)
           tc == IF c.tx THEN Merge(transactionCache, result) ELSE transactionCache
       IN  /\ transactionCache' = tc
           /\ task' = [task EXCEPT
                         ![t].pc = Back(t),
                         ![t].call = NoCall,
                         ![t].got = [op |-> budget.ops, ids |-> c.ids,
                                     res |-> IF c.tx THEN Only(tc, c.ids) ELSE result]]
    /\ UNCHANGED <<store, transactionsInProgress, mutations, dbQueriesInTransaction,
                   budget, queueVars, relayVars, auxVars>>

\* state.get throws and the get rejects. Inside the caller's transaction its
\* work throws in turn: `await work()` throws, and lines 161-168 run.
FetchFails(t, caught) ==
    /\ task[t].pc = "fetch"
    /\ IF task[t].depth > 0
       THEN Finally(t, [task[t] EXCEPT !.call = NoCall], "rejected",
                    IF caught THEN "work" ELSE "throw")
       ELSE /\ task' = [task EXCEPT ![t].pc = "idle", ![t].call = NoCall]
            /\ UNCHANGED <<transactionsInProgress, transactionCache, mutations,
                           dbQueriesInTransaction>>
    /\ UNCHANGED <<store, budget, queueVars, relayVars, auxVars>>

\* set(data), lines 123-133; data holds the caller's tag for each id of ids.
Set(t, ids) ==
    /\ task[t].pc \in {"idle", "work"}
    /\ budget.ops < MaxOps
    /\ budget' = [budget EXCEPT !.ops = @ + 1]
    /\ LET data == [k \in Keys |-> IF k \in ids THEN Some(Tag(t)) ELSE None]
           mine == task[t].depth > 0
       IN  IF isInTransaction
           THEN /\ transactionCache' = Merge(transactionCache, data)
                /\ mutations' = Merge(mutations, data)
                /\ task' = [task EXCEPT
                              ![t].wrote = IF mine THEN Merge(@, data) ELSE @,
                              ![t].wroteAt = IF mine THEN @ \cup {task[t].depth} ELSE @]
           ELSE /\ task' = [task EXCEPT ![t].pc = "dset", ![t].payload = data]
                /\ UNCHANGED <<transactionCache, mutations>>
    /\ UNCHANGED <<store, transactionsInProgress, dbQueriesInTransaction, queueVars, relayVars, auxVars>>

\* line 131: the state.set of a set made outside any transaction succeeds
DirectSetOk(t) ==
    /\ task[t].pc = "dset"
    /\ store' = Merge(store, task[t].payload)
    /\ task' = [task EXCEPT ![t].pc = Back(t), ![t].payload = NoData]
    /\ UNCHANGED <<transactionsInProgress, transactionCache, mutations,
                   dbQueriesInTransaction, budget, queueVars, relayVars, auxVars>>

\* line 131: it throws, and so does the set
DirectSetFails(t) ==
    /\ task[t].pc = "dset"
    /\ task' = [task EXCEPT ![t].pc = Back(t), ![t].payload = NoData]
    /\ UNCHANGED <<store, transactionsInProgress, transactionCache, mutations,
                   dbQueriesInTransaction, budget, queueVars, relayVars, auxVars>>

\* transaction(work), lines 136-143, called by a caller that is in no
\* transaction of its own: the counter goes up and work() starts.
Transaction(t) ==
    /\ task[t].pc = "idle"
    /\ budget.txns < MaxTxn
    /\ budget' = [budget EXCEPT !.txns = @ + 1]
    /\ transactionsInProgress' = transactionsInProgress + 1
    /\ task' = [task EXCEPT ![t] = [@ EXCEPT !.pc = "work", !.depth = 1,
                                             !.epoch = @ + 1, !.outcome = "none",
                                             !.wrote = NoData, !.wroteAt = {},
                                             !.setCalls = 0, !.lastCommit = "none",
                                             !.handed = {}]]
    /\ UNCHANGED <<store, transactionCache, mutations, dbQueriesInTransaction, queueVars, relayVars, auxVars>>

\* transaction(work) called from inside the caller's own work: a nested call
NestedTransaction(t) ==
    /\ task[t].pc = "work"
    /\ budget.nested < MaxNested
    /\ budget' = [budget EXCEPT !.nested = @ + 1]
    /\ transactionsInProgress' = transactionsInProgress + 1
    /\ task' = [task EXCEPT ![t].depth = @ + 1]
    /\ UNCHANGED <<store, transactionCache, mutations, dbQueriesInTransaction, queueVars, relayVars, auxVars>>

ShouldCommitAtAnyDepth == NonEmpty(mutations)

\* state.set(data) is called by a commit loop, line 150: the callers whose
\* writes data carries
Handed(tk, data) ==
    [u \in Tasks |->
        [tk[u] EXCEPT !.handed = @ \cup {k \in Keys : /\ tk[u].wrote[k] # None
                                                     /\ tk[u].wrote[k] = data[k]}]]

\* the test of line 144
ShouldCommit == transactionsInProgress = 1 /\ NonEmpty(mutations)

\* `await work()` resumes with a result, lines 143-150: either the commit
\* loop starts and makes its first state.set(mutations) call, or the call ends.
Returned(t) ==
    IF ShouldCommit /\ maxCommitRetries > 0
    THEN /\ task' = Handed([task EXCEPT ![t].pc = "commit",
                                        ![t].tries = maxCommitRetries - 1,
                                        ![t].payload = mutations,
                                        ![t].setCalls = 1], mutations)
         /\ UNCHANGED <<transactionsInProgress, transactionCache, mutations,
                        dbQueriesInTransaction>>
    ELSE Finally(t, task[t], "resolved", "work")

\* the work function of the caller's innermost transaction returns
WorkReturns(t) ==
    /\ task[t].pc = "work"
    /\ Returned(t)
    /\ UNCHANGED <<store, budget, queueVars, relayVars, auxVars>>

\* The work function throws and `await work()` throws, lines 161-168; the
\* work of an enclosing transaction of the same caller catches it or not.
WorkThrows(t, caught) ==
    /\ task[t].pc = "work"
    /\ Finally(t, task[t], "rejected", IF caught THEN "work" ELSE "throw")
    /\ UNCHANGED <<store, budget, queueVars, relayVars, auxVars>>

\* the work of the enclosing transaction throws what its nested call rethrew
ExitThrow(t) ==
    /\ task[t].pc = "throw"
    /\ Finally(t, task[t], "rejected", "throw")
    /\ UNCHANGED <<store, budget, queueVars, relayVars, auxVars>>

\* state.set(mutations) succeeds, lines 150-152: break, then the finally block
CommitOk(t) ==
    /\ task[t].pc = "commit"
    /\ store' = Merge(store, task[t].payload)
    /\ Finally(t, [task[t] EXCEPT !.payload = NoData, !.lastCommit = "ok"],
               "resolved", "work")
    /\ UNCHANGED <<budget, queueVars, relayVars, auxVars>>

CommitFailsAndRetriesAgain(t) ==
    /\ task[t].pc = "commit"
    /\ task' = Handed([task EXCEPT ![t].payload = mutations,
                                   ![t].setCalls = Min(@ + 1, maxCommitRetries + 1)],
                       mutations)
    /\ UNCHANGED <<store, transactionsInProgress, transactionCache, mutations,
                   dbQueriesInTransaction, budget, queueVars, relayVars, auxVars>>

\* state.set(mutations) throws, lines 153-156 and 147-150: after the delay
\* the next try is made, or with no try left the loop ends and the call goes
\* on to the finally block and returns
CommitFails(t) ==
    /\ task[t].pc = "commit"
    /\ IF task[t].tries > 0
       THEN /\ task' = Handed([task EXCEPT ![t].tries = @ - 1,
                                           ![t].payload = mutations,
                                           ![t].setCalls = @ + 1], mutations)
            /\ UNCHANGED <<transactionsInProgress, transactionCache, mutations,
                           dbQueriesInTransaction>>
       ELSE Finally(t, [task[t] EXCEPT !.payload = NoData, !.lastCommit = "exhausted"],
                    "resolved", "work")
    /\ UNCHANGED <<store, budget, queueVars, relayVars, auxVars>>

NextTx ==
    \/ \E t \in Tasks, k \in Keys : Get(t, {k})
    \/ \E t \in Tasks : FetchDone(t)
    \/ \E t \in Tasks, caught \in BOOLEAN : FetchFails(t, caught)
    \/ \E t \in Tasks, k \in Keys : Set(t, {k})
    \/ \E t \in Tasks : DirectSetOk(t)
    \/ \E t \in Tasks : DirectSetFails(t)
    \/ \E t \in Tasks : Transaction(t)
    \/ \E t \in Tasks : NestedTransaction(t)
    \/ \E t \in Tasks : WorkReturns(t)
    \/ \E t \in Tasks, caught \in BOOLEAN : WorkThrows(t, caught)
    \/ \E t \in Tasks : ExitThrow(t)
    \/ \E t \in Tasks : CommitOk(t)
    \/ \E t \in Tasks : CommitFails(t)

SpecTx == Init /\ [][NextTx]_vars

Spec == SpecTx

(***************************************************************************)
(* relayMessage to a group: src/Socket/messages-send.ts, lines 383-624.    *)
(* The keys of the store are the sender-key-memory rows of the groups; a   *)
(* row's value is the set of device jids it marks true. authState.keys is  *)
(* the transaction layer above. Rows are values here: the marking of line  *)
(* 474 is on the caller's own senderKeyMap.                                *)
(***************************************************************************)
Row(cell) == IF cell = None THEN {} ELSE cell[1]

\* the devices getUSyncDevices returns for the participants of a group
Fanout(g) == Devices

\* authState.keys.set({ 'sender-key-memory': { [jid]: senderKeyMap } }), line
\* 500, inside the transaction (auth-utils.ts lines 124-129)
SetRow(t, g, senderKeyMap) ==
    LET data == [k \in Keys |-> IF k = g THEN Some(senderKeyMap) ELSE None]
    IN  /\ transactionCache' = Merge(transactionCache, data)
        /\ mutations' = Merge(mutations, data)
        /\ task' = [task EXCEPT ![t].wrote = Merge(@, data),
                                ![t].wroteAt = @ \cup {task[t].depth}]

\* relayMessage(jid, message, { participant }), lines 383-447: the transaction
\* is entered and, without a participant, the get of the group's row is made
\* (auth-utils.ts lines 100-106).
RelayMessage(t, g, p) ==
    /\ task[t].pc = "idle"
    /\ budget.txns < MaxTxn
    /\ budget' = [budget EXCEPT !.txns = @ + 1]
    /\ transactionsInProgress' = transactionsInProgress + 1
    /\ LET needGet == p = "none"
           needFetch == needGet /\ transactionCache[g] = None
       IN  /\ dbQueriesInTransaction' = IF needFetch THEN dbQueriesInTransaction + 1
                                        ELSE dbQueriesInTransaction
           /\ task' = [task EXCEPT ![t] = [NoTask EXCEPT
                         !.pc = IF needFetch THEN "fetch" ELSE "work",
                         !.depth = 1,
                         !.epoch = task[t].epoch + 1,
                         !.call = IF needFetch THEN [ids |-> {g}, fetch |-> {g}, tx |-> TRUE]
                                  ELSE NoCall,
                         !.got = IF needGet /\ ~needFetch
                                 THEN [op |-> 0, ids |-> {g}, res |-> Only(transactionCache, {g})]
                                 ELSE NoGot]]
    /\ relay' = [relay EXCEPT ![t] = [NoRelay EXCEPT
                   !.at = "map", !.jid = g, !.participant = p,
                   !.devices = IF p = "none" THEN {} ELSE {p},
                   !.rowBefore = Row(store[g])]]
    /\ UNCHANGED <<store, transactionCache, mutations, skdmSent, queueVars, auxVars>>

\* Lines 443-476: senderKeyMap is the row the get returned (empty with a
\* participant), the devices are fetched, the message is encrypted for the
\* group and the devices that need the distribution message are marked in
\* senderKeyMap. With none to send it to, lines 494-500 follow at once.
RelayPrepare(t) ==
    /\ task[t].pc = "work"
    /\ relay[t].at = "map"
    /\ LET r == relay[t]
           senderKeyMap == IF r.participant = "none" THEN Row(task[t].got.res[r.jid]) ELSE {}
           devices == IF r.participant = "none" THEN Fanout(r.jid) ELSE r.devices
           senderKeyJids == {d \in devices : d \notin senderKeyMap \/ r.participant # "none"}
       IN  /\ relay' = [relay EXCEPT ![t].devices = devices,
                                     ![t].senderKeyMap = senderKeyMap \cup senderKeyJids,
                                     ![t].senderKeyJids = senderKeyJids,
                                     ![t].skmsg = IF senderKeyJids = {} THEN 1 ELSE 0,
                                     ![t].at = IF senderKeyJids = {} THEN "send" ELSE "nodes"]
           /\ IF senderKeyJids = {}
              THEN SetRow(t, r.jid, senderKeyMap)
              ELSE UNCHANGED <<transactionCache, mutations, task>>
    /\ UNCHANGED <<store, transactionsInProgress, dbQueriesInTransaction, budget,
                   skdmSent, queueVars, auxVars>>

\* Lines 486-500: the sessions are asserted, a <to> node with the
\* distribution message is built for each of senderKeyJids, the skmsg <enc>
\* is pushed and the row is set.
RelayNodes(t) ==
    /\ task[t].pc = "work"
    /\ relay[t].at = "nodes"
    /\ relay' = [relay EXCEPT ![t].to = relay[t].senderKeyJids,
                              ![t].skmsg = 1,
                              ![t].at = "send"]
    /\ SetRow(t, relay[t].jid, relay[t].senderKeyMap)
    /\ UNCHANGED <<store, transactionsInProgress, dbQueriesInTransaction, budget,
                   skdmSent, queueVars, auxVars>>

\* Lines 565-621: the stanza is assembled, sendNode(stanza) returns, and so
\* does the work.
RelaySendOk(t) ==
    /\ task[t].pc = "work"
    /\ relay[t].at = "send"
    /\ relay' = [relay EXCEPT ![t].at = "sent"]
    /\ skdmSent' = [skdmSent EXCEPT ![relay[t].jid] = @ \cup relay[t].to]
    /\ Returned(t)
    /\ UNCHANGED <<store, budget, queueVars, auxVars>>

\* a step of relayMessage between lines 431 and 620 throws, and so does the work
RelayThrows(t) ==
    /\ relay[t].at \in {"map", "nodes", "send"}
    /\ WorkThrows(t, FALSE)

NextRelay ==
    \/ \E t \in Tasks, g \in Keys, p \in Devices \cup {"none"} : RelayMessage(t, g, p)
    \/ \E t \in Tasks : FetchDone(t)
    \/ \E t \in Tasks : FetchFails(t, FALSE)
    \/ \E t \in Tasks : RelayPrepare(t)
    \/ \E t \in Tasks : RelayNodes(t)
    \/ \E t \in Tasks : RelaySendOk(t)
    \/ \E t \in Tasks : RelayThrows(t)
    \/ \E t \in Tasks : CommitOk(t)
    \/ \E t \in Tasks : CommitFails(t)

SpecRelay == InitOfRelay /\ [][NextRelay]_vars

(***************************************************************************)
(* extractDeviceJids: src/Utils/auth-utils.ts, lines 215-250 and 350-368.  *)
(* A usync response is the sequence of the <user> items of its <list>;     *)
(* an item is its user and the sequence of the children of its             *)
(* <device-list>, each a tag with the attributes id and key-index.         *)
(***************************************************************************)
Descriptors ==
    {[tag |-> "device", id |-> 0, keyIndex |-> ""],
     [tag |-> "device", id |-> 0, keyIndex |-> "2"],
     [tag |-> "device", id |-> 1, keyIndex |-> ""],
     [tag |-> "device", id |-> 1, keyIndex |-> "2"],
     [tag |-> "keys", id |-> 1, keyIndex |-> "2"]}

RECURSIVE SeqsUpTo(_, _)
SeqsUpTo(S, n) ==
    IF n = 0 THEN {<<>>}
    ELSE LET shorter == SeqsUpTo(S, n - 1)
         IN  shorter \cup {Append(q, x) : q \in shorter, x \in S}

DeviceLists == SeqsUpTo(Descriptors, MaxDevs)

Items == [user : Users, devices : DeviceLists]

\* responses with at most two <user> items
Responses == {<<>>} \cup {<<i>> : i \in Items} \cup {<<i, j>> : i, j \in Items}

MyJids == [user : {"u1"}, device : {Undefined, 0, 1}]

ProcessDeviceIgnoringKeyIndex(tag, attrs, user, myUser, myDevice, excludeZeroDevices, extracted) ==
    LET device == attrs.id
    IN  IF /\ tag = "device"
           /\ (~excludeZeroDevices \/ device # 0)
           /\ (myUser # user \/ myDevice # device)
        THEN Append(extracted, [user |-> user, device |-> device])
        ELSE extracted

\* processDevice, lines 232-250
ProcessDevice(tag, attrs, user, myUser, myDevice, excludeZeroDevices, extracted) ==
    LET device == attrs.id
    IN  IF /\ tag = "device"
           /\ (~excludeZeroDevices \/ device # 0)
           /\ (myUser # user \/ myDevice # device)
           /\ (device = 0 \/ attrs.keyIndex # "")
        THEN Append(extracted, [user |-> user, device |-> device])
        ELSE extracted

\* the loop of processItem, lines 226-228, from the i-th child on
RECURSIVE ProcessItemFrom(_, _, _, _, _, _, _)
ProcessItemFrom(content, i, user, myUser, myDevice, excludeZeroDevices, extracted) ==
    IF i > Len(content) THEN extracted
    ELSE ProcessItemFrom(content, i + 1, user, myUser, myDevice, excludeZeroDevices,
                         ProcessDevice(content[i].tag, content[i], user, myUser, myDevice,
                                       excludeZeroDevices, extracted))

\* processItem, lines 215-230
ProcessItem(item, myUser, myDevice, excludeZeroDevices, extracted) ==
    ProcessItemFrom(item.devices, 1, item.user, myUser, myDevice, excludeZeroDevices, extracted)

\* the loop of extractDeviceJids, lines 361-363, from the i-th item on
RECURSIVE ExtractFrom(_, _, _, _, _, _)
ExtractFrom(list, i, myUser, myDevice, excludeZeroDevices, extracted) ==
    IF i > Len(list) THEN extracted
    ELSE ExtractFrom(list, i + 1, myUser, myDevice, excludeZeroDevices,
                     ProcessItem(list[i], myUser, myDevice, excludeZeroDevices, extracted))

\* extractDeviceJids(result, myJid, excludeZeroDevices), lines 350-368
ExtractDeviceJids(result, my, excludeZeroDevices) ==
    ExtractFrom(result, 1, my.user, my.device, excludeZeroDevices, <<>>)

InitExtract ==
    /\ InitQueue
    /\ InitTx
    /\ store = [k \in Keys |-> None]
    /\ skdmSent = [k \in Keys |-> {}]
    /\ xin \in [resp : Responses, my : MyJids, excl : BOOLEAN]
    /\ xout = <<>>
    /\ InitUSync
    /\ InitCache
    /\ InitPreKeys
    /\ InitStanza
    /\ InitMedia

CallExtractDeviceJids ==
    /\ xout = <<>>
    /\ xout' = <<ExtractDeviceJids(xin.resp, xin.my, xin.excl)>>
    /\ UNCHANGED <<xin, queueVars, txVars, relayVars, usyncVars, cacheVars, preKeyVars,
                   stanzaVars, mediaVars>>

NextExtract == CallExtractDeviceJids

SpecExtract == InitExtract /\ [][NextExtract]_vars

(***************************************************************************)
(* getUSyncDevices: src/Socket/messages-send.ts, lines 188-264. The input  *)
(* is the set of its distinct jids (line 196). Device arrays and the user  *)
(* list of the query are taken as sets, with the number of times a user    *)
(* was pushed to the user list (userNodes) and the number of times its     *)
(* cached devices were pushed to deviceResults (cachedPushes) beside them. *)
(***************************************************************************)
\* authState.creds.me.id decoded
Me == [user |-> "u1", device |-> 1]

\* the device lists the server answers with
ServerLists ==
    {<<>>,
     <<[tag |-> "device", id |-> 0, keyIndex |-> ""]>>,
     <<[tag |-> "device", id |-> 0, keyIndex |-> ""], [tag |-> "device", id |-> 1, keyIndex |-> "2"]>>}

UserOrder == <<"u1", "u2">>

\* the jids a call is given: a user by its bare jid, and the sender with
\* its device as well (creds.me.id, as relayMessage passes it at line 529)
InputJids ==
    {[user |-> "u1", device |-> Undefined], [user |-> "u1", device |-> 1],
     [user |-> "u2", device |-> Undefined]}

\* jidDecode(jid).user of the jids of a set
UsersOf(jids) == {jid.user : jid \in jids}

\* the response to a query for the users of a list: one item per user, with
\* the device list lists[user]
ResponseTo(users, lists) ==
    LET asked == SelectSeq(UserOrder, LAMBDA u : u \in users)
    IN  [i \in 1..Len(asked) |-> [user |-> asked[i], devices |-> lists[asked[i]]]]

\* the (user, device) pairs of a sequence of pairs
PairsOf(q) == {q[i] : i \in 1..Len(q)}

\* the end of the loop of lines 197-209: with no user to ask for the call
\* returns (line 212), else the query is sent (line 248)
AfterLoop(c) ==
    IF c.remaining # {} THEN c
    ELSE IF c.users = {}
         THEN [c EXCEPT !.pc = "idle", !.ret = "returned", !.result = c.deviceResults]
         ELSE [c EXCEPT !.pc = "query", !.queries = @ + 1, !.queried = c.users]

\* getUSyncDevices(jids, useCache, ignoreZeroDevices) is called, lines 188-197
GetUSyncDevices(t, jids, useCache, ignoreZeroDevices) ==
    /\ usync[t].pc = "idle"
    /\ usyncCalls < MaxUSyncCalls
    /\ usyncCalls' = usyncCalls + 1
    /\ usync' = [usync EXCEPT ![t] =
                   AfterLoop([NoUSync EXCEPT !.pc = "lookup", !.jids = jids,
                                             !.useCache = useCache,
                                             !.ignoreZeroDevices = ignoreZeroDevices,
                                             !.remaining = jids])]
    /\ UNCHANGED <<userDevicesCache, extractVars, cacheVars, preKeyVars, queueVars, txVars, relayVars, stanzaVars, mediaVars>>

USyncLookupNeverCached(t, jid) ==
    /\ usync[t].pc = "lookup"
    /\ jid \in usync[t].remaining
    /\ LET c == usync[t]
           user == jid.user
           devices == userDevicesCache[user]
           found == devices # None
       IN  usync' = [usync EXCEPT ![t] = AfterLoop(
               [c EXCEPT !.remaining = @ \ {jid},
                         !.users = @ \cup {user},
                         !.userNodes[user] = @ + 1,
                         !.hit = IF found THEN @ \cup {user} ELSE @,
                         !.miss = IF found THEN @ ELSE @ \cup {user},
                         !.fromCache = IF found THEN @ \cup devices[1] ELSE @])]
    /\ UNCHANGED <<userDevicesCache, usyncCalls, extractVars, cacheVars, preKeyVars, queueVars, txVars, relayVars, stanzaVars, mediaVars>>

\* one turn of the loop, lines 198-208, resumed from the await of line 201
USyncLookup(t, jid) ==
    /\ usync[t].pc = "lookup"
    /\ jid \in usync[t].remaining
    /\ LET c == usync[t]
           user == jid.user
           devices == userDevicesCache[user]
           found == devices # None
           cached == found /\ c.useCache
       IN  usync' = [usync EXCEPT ![t] = AfterLoop(
               [c EXCEPT !.remaining = @ \ {jid},
                         !.deviceResults = IF cached THEN @ \cup devices[1] ELSE @,
                         !.cachedPushes[user] = IF cached THEN @ + 1 ELSE @,
                         !.users = IF cached THEN @ ELSE @ \cup {user},
                         !.userNodes[user] = IF cached THEN @ ELSE @ + 1,
                         !.hit = IF found THEN @ \cup {user} ELSE @,
                         !.miss = IF found THEN @ ELSE @ \cup {user},
                         !.fromCache = IF found THEN @ \cup devices[1] ELSE @])]
    /\ UNCHANGED <<userDevicesCache, usyncCalls, extractVars, cacheVars, preKeyVars, queueVars, txVars, relayVars, stanzaVars, mediaVars>>

\* the response to the query arrives, lines 248-263
USyncResponse(t, lists) ==
    /\ usync[t].pc = "query"
    /\ LET c == usync[t]
           result == ResponseTo(c.users, lists)
           extracted == PairsOf(ExtractDeviceJids(result, Me, c.ignoreZeroDevices))
           deviceMap == [u \in Users |-> {item \in extracted : item.user = u}]
           deviceResults == c.deviceResults \cup extracted
       IN  /\ userDevicesCache' = [u \in Users |->
                  IF deviceMap[u] # {} THEN Some(deviceMap[u]) ELSE userDevicesCache[u]]
           /\ usync' = [usync EXCEPT ![t] =
                  [c EXCEPT !.pc = "idle", !.ret = "returned", !.extracted = extracted,
                            !.deviceResults = deviceResults, !.result = deviceResults]]
    /\ UNCHANGED <<usyncCalls, extractVars, cacheVars, preKeyVars, queueVars, txVars, relayVars, stanzaVars, mediaVars>>

\* line 248: the query fails and the call throws
USyncQueryFails(t) ==
    /\ usync[t].pc = "query"
    /\ usync' = [usync EXCEPT ![t].pc = "idle", ![t].ret = "threw"]
    /\ UNCHANGED <<userDevicesCache, usyncCalls, extractVars, cacheVars, preKeyVars, queueVars, txVars, relayVars, stanzaVars, mediaVars>>

\* line 86: an entry of the cache reaches its time to live
USyncCacheExpires(user) ==
    /\ userDevicesCache[user] # None
    /\ userDevicesCache' = [userDevicesCache EXCEPT ![user] = None]
    /\ UNCHANGED <<usync, usyncCalls, extractVars, cacheVars, preKeyVars, queueVars, txVars, relayVars, stanzaVars, mediaVars>>

NextUSync ==
    \/ \E t \in Tasks, jids \in SUBSET InputJids, useCache, ignoreZeroDevices \in BOOLEAN :
          GetUSyncDevices(t, jids, useCache, ignoreZeroDevices)
    \/ \E t \in Tasks, jid \in InputJids : USyncLookup(t, jid)
    \/ \E t \in Tasks, lists \in [Users -> ServerLists] : USyncResponse(t, lists)
    \/ \E t \in Tasks : USyncQueryFails(t)
    \/ \E user \in Users : USyncCacheExpires(user)

SpecUSync == Init /\ [][NextUSync]_vars

(***************************************************************************)
(* The layered store outside any transaction: the get and set of           *)
(* addTransactionCapability pass the call on (src/Utils/auth-utils.ts,     *)
(* lines 119-132) to makeCacheableSignalKeyStore (lines 16-76) over the    *)
(* wrapped store. One client makes one call after the other. The loops of  *)
(* get and set are taken in one step: the only thing that can happen       *)
(* within them is an expiry, and one within the loop is as one before the  *)
(* call or after it.                                                       *)
(***************************************************************************)
\* get(type, ids), lines 30-46 and, with nothing to fetch, line 56
CacheGet(type, ids) ==
    /\ cop.pc = "idle"
    /\ cacheOps < MaxCacheOps
    /\ cacheOps' = cacheOps + 1
    /\ LET idsToFetch == {id \in ids : cache[getUniqueId(type, id)] = None}
           data == [id \in Ids |-> IF id \in ids \ idsToFetch
                                   THEN cache[getUniqueId(type, id)] ELSE None]
       IN  cop' = [NoOp EXCEPT !.kind = "get", !.type = type, !.ids = ids,
                               !.idsToFetch = idsToFetch, !.got = data,
                               !.missed = {id \in ids : lastMiss[<<type, id>>]},
                               !.pc = IF idsToFetch = {} THEN "idle" ELSE "fetch",
                               !.ret = IF idsToFetch = {} THEN "returned" ELSE "none"]
    /\ UNCHANGED <<cache, backing, lastSet, lastMiss, lastFailed, extractVars, usyncVars, preKeyVars, queueVars, txVars, relayVars, stanzaVars, mediaVars>>

\* A variant of CacheFetchDone that caches null for an id the store does
\* not hold.
CacheFetchDoneCachingMisses ==
    /\ cop.pc = "fetch"
    /\ LET item(id) == backing[<<cop.type, id>>]
           found == {id \in cop.idsToFetch : item(id) # None /\ item(id) # Some("null")}
       IN  /\ cache' = [u \in UniqueIds |->
                  IF \E id \in found : u = getUniqueId(cop.type, id)
                  THEN item(CHOOSE id \in found : u = getUniqueId(cop.type, id))
                  ELSE IF \E id \in cop.idsToFetch : u = getUniqueId(cop.type, id)
                  THEN Some("null")
                  ELSE cache[u]]
           /\ cop' = [cop EXCEPT !.pc = "idle", !.ret = "returned",
                                 !.fetched = [id \in Ids |-> IF id \in cop.idsToFetch
                                                               THEN item(id) ELSE None],
                                 !.got = [id \in Ids |-> IF id \in found THEN item(id) ELSE @[id]]]
           /\ lastMiss' = [k \in TypedIds |->
                  IF k[1] = cop.type /\ k[2] \in cop.idsToFetch
                  THEN k[2] \notin found ELSE lastMiss[k]]
    /\ UNCHANGED <<backing, lastSet, lastFailed, cacheOps, extractVars, usyncVars, preKeyVars, queueVars, txVars, relayVars, stanzaVars, mediaVars>>

\* store.get returns, lines 46-56: an item that is set and not null is
\* returned and cached
CacheFetchDone ==
    /\ cop.pc = "fetch"
    /\ LET item(id) == backing[<<cop.type, id>>]
           found == {id \in cop.idsToFetch : item(id) # None /\ item(id) # Some("null")}
       IN  /\ cache' = [u \in UniqueIds |->
                  IF \E id \in found : u = getUniqueId(cop.type, id)
                  THEN item(CHOOSE id \in found : u = getUniqueId(cop.type, id))
                  ELSE cache[u]]
           /\ cop' = [cop EXCEPT !.pc = "idle", !.ret = "returned",
                                 !.fetched = [id \in Ids |-> IF id \in cop.idsToFetch
                                                               THEN item(id) ELSE None],
                                 !.got = [id \in Ids |-> IF id \in found THEN item(id) ELSE @[id]]]
           /\ lastMiss' = [k \in TypedIds |->
                  IF k[1] = cop.type /\ k[2] \in cop.idsToFetch
                  THEN k[2] \notin found ELSE lastMiss[k]]
    /\ UNCHANGED <<backing, lastSet, lastFailed, cacheOps, extractVars, usyncVars, preKeyVars, queueVars, txVars, relayVars, stanzaVars, mediaVars>>

\* line 46: store.get throws, and so does the get
CacheFetchFails ==
    /\ cop.pc = "fetch"
    /\ cop' = [cop EXCEPT !.pc = "idle", !.ret = "threw"]
    /\ UNCHANGED <<cache, backing, lastSet, lastMiss, lastFailed, cacheOps, extractVars, usyncVars, preKeyVars,
                   queueVars, txVars, relayVars, stanzaVars, mediaVars>>

\* set(data), lines 58-69, with data = { [type]: data }: every value is put
\* in the cache, then store.set is called
CacheSet(type, ids, data) ==
    /\ cop.pc = "idle"
    /\ cacheOps < MaxCacheOps
    /\ cacheOps' = cacheOps + 1
    /\ cache' = [u \in UniqueIds |->
           IF \E id \in ids : u = getUniqueId(type, id)
           THEN Some(data[CHOOSE id \in ids : u = getUniqueId(type, id)])
           ELSE cache[u]]
    /\ cop' = [NoOp EXCEPT !.kind = "set", !.type = type, !.ids = ids, !.pc = "store",
                           !.data = [id \in Ids |-> IF id \in ids THEN Some(data[id]) ELSE None]]
    /\ lastSet' = [k \in TypedIds |-> IF k[1] = type /\ k[2] \in ids THEN <<>> ELSE lastSet[k]]
    /\ lastMiss' = [k \in TypedIds |-> IF k[1] = type /\ k[2] \in ids THEN FALSE ELSE lastMiss[k]]
    /\ lastFailed' = [k \in TypedIds |-> IF k[1] = type /\ k[2] \in ids THEN None ELSE lastFailed[k]]
    /\ UNCHANGED <<backing, extractVars, usyncVars, preKeyVars, queueVars, txVars, relayVars, stanzaVars, mediaVars>>

\* line 69: store.set returns; the wrapped store holds the values, a null
\* having removed the key
CacheStoreSetOk ==
    /\ cop.pc = "store"
    /\ backing' = [k \in TypedIds |->
           IF k[1] = cop.type /\ k[2] \in cop.ids
           THEN (IF cop.data[k[2]] = Some("null") THEN None ELSE cop.data[k[2]])
           ELSE backing[k]]
    /\ lastSet' = [k \in TypedIds |->
           IF k[1] = cop.type /\ k[2] \in cop.ids THEN cop.data[k[2]] ELSE lastSet[k]]
    /\ cop' = [cop EXCEPT !.pc = "idle", !.ret = "returned"]
    /\ UNCHANGED <<cache, cacheOps, lastMiss, lastFailed, extractVars, usyncVars, preKeyVars, queueVars, txVars, relayVars, stanzaVars, mediaVars>>

\* line 69: store.set throws, and so does the set
CacheStoreSetFails ==
    /\ cop.pc = "store"
    /\ cop' = [cop EXCEPT !.pc = "idle", !.ret = "threw"]
    /\ lastFailed' = [k \in TypedIds |->
           IF k[1] = cop.type /\ k[2] \in cop.ids THEN cop.data[k[2]] ELSE lastFailed[k]]
    /\ UNCHANGED <<cache, backing, lastSet, lastMiss, cacheOps, extractVars, usyncVars, preKeyVars,
                   queueVars, txVars, relayVars, stanzaVars, mediaVars>>

\* lines 22-24: an entry of the cache reaches its time to live and is deleted
CacheExpires(u) ==
    /\ cache[u] # None
    /\ cache' = [cache EXCEPT ![u] = None]
    /\ UNCHANGED <<backing, cop, lastSet, lastMiss, lastFailed, cacheOps, extractVars, usyncVars, preKeyVars,
                   queueVars, txVars, relayVars, stanzaVars, mediaVars>>

\* line 17: the wrapped store is written by another holder of it, not
\* through this layer
StoreSetDirectly(k, v) ==
    /\ cacheOps < MaxCacheOps
    /\ cacheOps' = cacheOps + 1
    /\ backing' = [backing EXCEPT ![k] = Some(v)]
    /\ lastSet' = [lastSet EXCEPT ![k] = <<>>]
    /\ lastFailed' = [lastFailed EXCEPT ![k] = None]
    /\ UNCHANGED <<cache, cop, lastMiss, extractVars, usyncVars, preKeyVars,
                   queueVars, txVars, relayVars, stanzaVars, mediaVars>>

NextCache ==
    \/ \E type \in Types, ids \in SUBSET Ids \ {{}} : CacheGet(type, ids)
    \/ CacheFetchDone
    \/ CacheFetchFails
    \/ \E type \in Types, ids \in SUBSET Ids \ {{}} :
          \E data \in [ids -> Values] : CacheSet(type, ids, data)
    \/ CacheStoreSetOk
    \/ CacheStoreSetFails
    \/ \E u \in UniqueIds : CacheExpires(u)
    \/ \E k \in TypedIds, v \in DirectValues : StoreSetDirectly(k, v)

SpecCache == Init /\ [][NextCache]_vars

(***************************************************************************)
(* Pre-keys: generateOrGetPreKeys and getNextPreKeys,                      *)
(* src/Utils/auth-utils.ts, lines 261-277 and 375-388. The creds are       *)
(* advanced by the update of every call that returns.                      *)
(***************************************************************************)
Max(a, b) == IF a > b THEN a ELSE b

generateOrGetPreKeysFromFirstUnuploaded(cr, range) ==
    LET avaliable == cr.nextPreKeyId - cr.firstUnuploadedPreKeyId
        remaining == range - avaliable
        lastPreKeyId == cr.nextPreKeyId + remaining - 1
    IN  [newPreKeys |-> IF remaining > 0 THEN cr.firstUnuploadedPreKeyId..lastPreKeyId ELSE {},
         lastPreKeyId |-> lastPreKeyId,
         preKeysRange |-> <<cr.firstUnuploadedPreKeyId, range>>]

\* generateOrGetPreKeys(creds, range), lines 261-277
generateOrGetPreKeys(cr, range) ==
    LET avaliable == cr.nextPreKeyId - cr.firstUnuploadedPreKeyId
        remaining == range - avaliable
        lastPreKeyId == cr.nextPreKeyId + remaining - 1
    IN  [newPreKeys |-> IF remaining > 0 THEN cr.nextPreKeyId..lastPreKeyId ELSE {},
         lastPreKeyId |-> lastPreKeyId,
         preKeysRange |-> <<cr.firstUnuploadedPreKeyId, range>>]

\* the creds a first call is given: fresh ones, the ones of the spec's
\* example, and ones with generated pre-keys not yet uploaded
StartCreds ==
    {[nextPreKeyId |-> 1, firstUnuploadedPreKeyId |-> 1],
     [nextPreKeyId |-> 10, firstUnuploadedPreKeyId |-> 10],
     [nextPreKeyId |-> 10, firstUnuploadedPreKeyId |-> 8]}

InitOfPreKeys ==
    /\ InitQueue
    /\ InitTx
    /\ store = [k \in Keys |-> None]
    /\ skdmSent = [k \in Keys |-> {}]
    /\ xin = [resp |-> <<>>, my |-> [user |-> "u1", device |-> 1], excl |-> FALSE]
    /\ xout = <<>>
    /\ InitUSync
    /\ InitCache
    /\ InitStanza
    /\ InitMedia
    /\ creds \in StartCreds
    /\ pk = NoPk
    /\ issued = 1..(creds.nextPreKeyId - 1)
    /\ reissued = {}
    /\ pkCalls = 0

GetNextPreKeysWithoutMax(count) ==
    /\ pk.pc = "idle"
    /\ pkCalls < MaxPreKeyCalls
    /\ pkCalls' = pkCalls + 1
    /\ LET g == generateOrGetPreKeys(creds, count)
       IN  pk' = [NoPk EXCEPT
                    !.pc = "set", !.count = count, !.before = creds,
                    !.newPreKeys = g.newPreKeys, !.lastPreKeyId = g.lastPreKeyId,
                    !.update = [nextPreKeyId |-> g.lastPreKeyId + 1,
                                firstUnuploadedPreKeyId |-> g.lastPreKeyId + 1],
                    !.setCalls = 1]
    /\ UNCHANGED <<creds, issued, reissued, extractVars, usyncVars, cacheVars, queueVars,
                   txVars, relayVars, stanzaVars, mediaVars>>

\* getNextPreKeys(state, count), lines 375-383, to its await of keys.set
GetNextPreKeys(count) ==
    /\ pk.pc = "idle"
    /\ pkCalls < MaxPreKeyCalls
    /\ pkCalls' = pkCalls + 1
    /\ LET g == generateOrGetPreKeys(creds, count)
       IN  pk' = [NoPk EXCEPT
                    !.pc = "set", !.count = count, !.before = creds,
                    !.newPreKeys = g.newPreKeys, !.lastPreKeyId = g.lastPreKeyId,
                    !.update = [nextPreKeyId |-> Max(g.lastPreKeyId + 1, creds.nextPreKeyId),
                                firstUnuploadedPreKeyId |->
                                    Max(creds.firstUnuploadedPreKeyId, g.lastPreKeyId + 1)],
                    !.setCalls = 1]
    /\ UNCHANGED <<creds, issued, reissued, extractVars, usyncVars, cacheVars, queueVars,
                   txVars, relayVars, stanzaVars, mediaVars>>

\* line 383 returns; line 385: getPreKeys calls keys.get
PreKeysSetOk ==
    /\ pk.pc = "set"
    /\ pk' = [pk EXCEPT !.pc = "get"]
    /\ UNCHANGED <<creds, issued, reissued, pkCalls, extractVars, usyncVars, cacheVars,
                   queueVars, txVars, relayVars, stanzaVars, mediaVars>>

\* keys.set (line 383) or keys.get (line 385) throws, and so does the call
PreKeysCallFails ==
    /\ pk.pc \in {"set", "get"}
    /\ pk' = [pk EXCEPT !.pc = "idle", !.ret = "threw"]
    /\ UNCHANGED <<creds, issued, reissued, pkCalls, extractVars, usyncVars, cacheVars,
                   queueVars, txVars, relayVars, stanzaVars, mediaVars>>

\* line 387: the call returns { update, preKeys } and the creds are advanced
\* by the update
PreKeysReturn ==
    /\ pk.pc = "get"
    /\ pk' = [pk EXCEPT !.pc = "idle", !.ret = "returned"]
    /\ creds' = pk.update
    /\ issued' = issued \cup pk.newPreKeys
    /\ reissued' = reissued \cup (issued \cap pk.newPreKeys)
    /\ UNCHANGED <<pkCalls, extractVars, usyncVars, cacheVars, queueVars, txVars, relayVars, stanzaVars, mediaVars>>

NextPreKeys ==
    \/ \E count \in 0..MaxCount : GetNextPreKeys(count)
    \/ PreKeysSetOk
    \/ PreKeysCallFails
    \/ PreKeysReturn

SpecPreKeys == InitOfPreKeys /\ [][NextPreKeys]_vars

(***************************************************************************)
(* relayMessage, the stanza it builds: src/Socket/messages-send.ts, lines  *)
(* 344-381 and 383-624. One call at a time; what the call awaits outside   *)
(* this file (group metadata, the device lists, the session type of an     *)
(* encryption) is an input of the step that receives it. An encrypted node *)
(* is its jid, the payload it was encrypted from and its enc type; a child *)
(* of the stanza is its tag, the node whose <enc> it is (an <enc> child)   *)
(* and the nodes it wraps (a <participants> child).                        *)
(***************************************************************************)
EncTypes == {"msg", "pkmsg"}

NoNode == [jid |-> NoJid, from |-> "", type |-> ""]
Child(tag, enc, content) == [tag |-> tag, enc |-> enc, content |-> content]

\* the devices a getUSyncDevices call can return for the users asked; the
\* sender's own device is never among them (auth-utils.ts, line 236)
AdditionalDevices(users) ==
    SeqsUpTo([user : users, device : {0, 2}], MaxAdditional)

\* A variant of createParticipantNodes that looks at the type of the first
\* node only.
createParticipantNodesFirstTypeOnly(jids, message, types) ==
    LET nodes == [i \in 1..Len(jids) |->
                    [jid |-> jids[i], from |-> message, type |-> types[i]]]
    IN  [nodes |-> nodes,
         shouldIncludeDeviceIdentity |-> Len(nodes) > 0 /\ nodes[1].type = "pkmsg"]

\* lines 344-381: one <to jid><enc type> node per jid; types[i] is the type
\* signalRepository.encryptMessage returns for the i-th jid
createParticipantNodes(jids, message, types) ==
    LET nodes == [i \in 1..Len(jids) |->
                    [jid |-> jids[i], from |-> message, type |-> types[i]]]
    IN  [nodes |-> nodes,
         shouldIncludeDeviceIdentity |->
             \E i \in 1..Len(nodes) : nodes[i].type = "pkmsg"]

\* lines 388-418 and the branch of lines 430, 501, 519
StanzaRelayMessage(jid, participant, category, additionalNodes) ==
    /\ send.pc = "idle"
    /\ send' = [NoSend EXCEPT
                   !.pc = IF jid.server = "g.us" \/ jid = statusJid THEN "group"
                          ELSE IF jid.server = "newsletter" THEN "newsletter"
                          ELSE "user",
                   !.jid = jid,
                   !.participant = participant,
                   !.category = category,
                   !.additionalNodes = additionalNodes,
                   !.devices = IF participant # None
                                 THEN <<[user |-> participant[1].user,
                                         device |-> participant[1].device]>>
                                 ELSE <<>>]
    /\ UNCHANGED <<queueVars, txVars, relayVars, extractVars, usyncVars, cacheVars,
                   preKeyVars, mediaVars>>

\* The loop of lines 469-476 from the i-th device on: a device is pushed
\* when its jid is not marked in senderKeyMap or a participant is given,
\* and is marked then.
RECURSIVE SenderKeyJidsFrom(_, _, _, _, _)
SenderKeyJidsFrom(devices, i, senderKeyMap, force, senderKeyJids) ==
    IF i > Len(devices) THEN senderKeyJids
    ELSE LET jid == Jid(devices[i].user, "s.whatsapp.net", devices[i].device)
         IN  IF jid \notin senderKeyMap \/ force
               THEN SenderKeyJidsFrom(devices, i + 1, senderKeyMap \cup {jid}, force,
                                      Append(senderKeyJids, jid))
               ELSE SenderKeyJidsFrom(devices, i + 1, senderKeyMap, force, senderKeyJids)

\* lines 431-476: row is what keys.get returned for the group,
\* additionalDevices what getUSyncDevices returned
StanzaGroupDevices(row, additionalDevices) ==
    /\ send.pc = "group"
    /\ LET isStatus == send.jid = statusJid
           senderKeyMap == IF send.participant = None /\ ~isStatus THEN row ELSE {}
           devices == IF send.participant = None
                        THEN send.devices \o additionalDevices
                        ELSE send.devices
       IN  /\ (send.participant # None \/ isStatus) => row = {}
           /\ send.participant # None => additionalDevices = <<>>
           /\ send' = [send EXCEPT
                          !.pc = "groupNodes",
                          !.devices = devices,
                          !.senderKeyJids =
                              SenderKeyJidsFrom(devices, 1, senderKeyMap,
                                                send.participant # None, <<>>)]
    /\ UNCHANGED <<queueVars, txVars, relayVars, extractVars, usyncVars, cacheVars,
                   preKeyVars, mediaVars>>

\* lines 478-500: the distribution message to the senderKeyJids, the skmsg
\* <enc>, and the set of the row of jid
StanzaGroupNodes(types) ==
    /\ send.pc = "groupNodes"
    /\ LET result == createParticipantNodes(send.senderKeyJids, "senderKeyMsg", types)
           skmsg == [jid |-> NoJid, from |-> "message", type |-> "skmsg"]
       IN  send' = [send EXCEPT
                       !.pc = "assemble",
                       !.shouldIncludeDeviceIdentity =
                           send.shouldIncludeDeviceIdentity
                           \/ result.shouldIncludeDeviceIdentity,
                       !.participants = send.participants \o result.nodes,
                       !.binaryNodeContent =
                           Append(send.binaryNodeContent, Child("enc", skmsg, <<>>)),
                       !.keysSet = send.keysSet \cup {send.jid}]
    /\ UNCHANGED <<queueVars, txVars, relayVars, extractVars, usyncVars, cacheVars,
                   preKeyVars, mediaVars>>

\* lines 501-518
StanzaNewsletter ==
    /\ send.pc = "newsletter"
    /\ send' = [send EXCEPT
                   !.pc = "assemble",
                   !.binaryNodeContent =
                       Append(send.binaryNodeContent, Child("plaintext", NoNode, <<>>))]
    /\ UNCHANGED <<queueVars, txVars, relayVars, extractVars, usyncVars, cacheVars,
                   preKeyVars, mediaVars>>

\* the jids of the devices d of devices with want = (d.user = meUser), in
\* the order of devices: lines 536-548
RECURSIVE JidsOf(_, _, _, _)
JidsOf(devices, i, isLid, want) ==
    IF i > Len(devices) THEN <<>>
    ELSE LET isMe == devices[i].user = meUser
             jid == Jid(IF isMe /\ isLid THEN meLidUser ELSE devices[i].user,
                        IF isLid THEN "lid" ELSE "s.whatsapp.net",
                        devices[i].device)
         IN  (IF isMe = want THEN <<jid>> ELSE <<>>)
             \o JidsOf(devices, i + 1, isLid, want)

\* lines 520-548: additionalDevices is what getUSyncDevices returned
StanzaUserDevices(additionalDevices) ==
    /\ send.pc = "user"
    /\ LET user == send.jid.user
           isLid == send.jid.server = "lid"
           usyncAsked == send.participant = None /\ send.category # "peer"
           devices ==
               IF send.participant = None
                 THEN send.devices
                      \o <<[user |-> user, device |-> Undefined]>>
                      \o (IF user # meUser
                            THEN <<[user |-> meUser, device |-> Undefined]>>
                            ELSE <<>>)
                      \o (IF usyncAsked THEN additionalDevices ELSE <<>>)
                 ELSE send.devices
       IN  /\ ~usyncAsked => additionalDevices = <<>>
           /\ send' = [send EXCEPT
                          !.pc = "userNodes",
                          !.devices = devices,
                          !.meJids = JidsOf(devices, 1, isLid, TRUE),
                          !.otherJids = JidsOf(devices, 1, isLid, FALSE)]
    /\ UNCHANGED <<queueVars, txVars, relayVars, extractVars, usyncVars, cacheVars,
                   preKeyVars, mediaVars>>

\* lines 550-563
StanzaUserNodes(meTypes, otherTypes) ==
    /\ send.pc = "userNodes"
    /\ LET me == createParticipantNodes(send.meJids, "meMsg", meTypes)
           other == createParticipantNodes(send.otherJids, "message", otherTypes)
       IN  send' = [send EXCEPT
                       !.pc = "assemble",
                       !.participants = send.participants \o me.nodes \o other.nodes,
                       !.shouldIncludeDeviceIdentity =
                           send.shouldIncludeDeviceIdentity
                           \/ me.shouldIncludeDeviceIdentity
                           \/ other.shouldIncludeDeviceIdentity]
    /\ UNCHANGED <<queueVars, txVars, relayVars, extractVars, usyncVars, cacheVars,
                   preKeyVars, mediaVars>>

\* lines 565-618: the children of the stanza, its routing attributes, and
\* sendNode
StanzaSend ==
    /\ send.pc = "assemble"
    /\ LET destinationJid == Jid(send.jid.user, send.jid.server, Undefined)
           inlined ==
               IF Len(send.participants) = 0 THEN <<>>
               ELSE IF send.category = "peer"
                      THEN <<Child("enc", send.participants[1], <<>>)>>
                      ELSE <<Child("participants", NoNode, send.participants)>>
           identity ==
               IF send.shouldIncludeDeviceIdentity
                 THEN <<Child("device-identity", NoNode, <<>>)>>
                 ELSE <<>>
           additional ==
               IF send.additionalNodes THEN <<Child("additional", NoNode, <<>>)>> ELSE <<>>
           content == send.binaryNodeContent \o inlined \o identity \o additional
           attrs ==
               IF send.participant # None
                 THEN IF destinationJid.server = "g.us"
                        THEN [to |-> destinationJid, participant |-> send.participant[1],
                              recipient |-> NoJid]
                      ELSE IF send.participant[1].user = meUser
                        THEN [to |-> send.participant[1], participant |-> NoJid,
                              recipient |-> destinationJid]
                      ELSE [to |-> send.participant[1], participant |-> NoJid,
                            recipient |-> NoJid]
                 ELSE [to |-> destinationJid, participant |-> NoJid, recipient |-> NoJid]
       IN  send' = [send EXCEPT
                       !.pc = "sent",
                       !.binaryNodeContent = content,
                       !.stanza = Some([to |-> attrs.to, participant |-> attrs.participant,
                                        recipient |-> attrs.recipient,
                                        content |-> content])]
    /\ UNCHANGED <<queueVars, txVars, relayVars, extractVars, usyncVars, cacheVars,
                   preKeyVars, mediaVars>>

\* an awaited call rejects (group metadata, the usync query, assertSessions,
\* an encryption, keys.set, sendNode): relayMessage rejects, nothing is sent
StanzaThrows ==
    /\ send.pc \in {"group", "groupNodes", "newsletter", "user", "userNodes", "assemble"}
    /\ send' = [send EXCEPT !.pc = "threw"]
    /\ UNCHANGED <<queueVars, txVars, relayVars, extractVars, usyncVars, cacheVars,
                   preKeyVars, mediaVars>>

\* line 623, or the rejection of the call: the call is over
StanzaReturns ==
    /\ send.pc \in {"sent", "threw"}
    /\ send' = NoSend
    /\ UNCHANGED <<queueVars, txVars, relayVars, extractVars, usyncVars, cacheVars,
                   preKeyVars, mediaVars>>

GroupJids == {Jid(u, "s.whatsapp.net", d) : u \in {"u1", "u2"}, d \in {0, 2}}

NextStanza ==
    \/ \E jid \in Destinations, participant \in ParticipantOptions,
          category \in Categories, additionalNodes \in BOOLEAN :
          StanzaRelayMessage(jid, participant, category, additionalNodes)
    \/ \E row \in SUBSET GroupJids, additionalDevices \in AdditionalDevices({"u1", "u2"}) :
          StanzaGroupDevices(row, additionalDevices)
    \/ \E types \in [1..Len(send.senderKeyJids) -> EncTypes] : StanzaGroupNodes(types)
    \/ StanzaNewsletter
    \/ \E additionalDevices \in AdditionalDevices({meUser, send.jid.user}) :
          StanzaUserDevices(additionalDevices)
    \/ \E meTypes \in [1..Len(send.meJids) -> EncTypes],
          otherTypes \in [1..Len(send.otherJids) -> EncTypes] :
          StanzaUserNodes(meTypes, otherTypes)
    \/ StanzaSend
    \/ StanzaThrows
    \/ StanzaReturns

SpecStanza == Init /\ [][NextStanza]_vars

(***************************************************************************)
(* refreshMediaConn (messages-send.ts lines 91-123)                        *)
(***************************************************************************)
Settled(p) == promise[p].status \in {"fulfilled", "rejected"}

\* refreshMediaConn(forceGet), lines 92-93: the call reaches `await mediaConn`
RefreshMediaConn(c, forceGet) ==
    /\ mcall[c].pc = "idle"
    /\ mediaCalls < MaxMediaCalls
    /\ mediaCalls' = mediaCalls + 1
    /\ mcall' = [mcall EXCEPT ![c] =
                   [pc |-> "media", forceGet |-> forceGet, awaiting |-> mediaConn,
                    afterFailure |-> mediaConn # 0 /\ promise[mediaConn].status = "rejected",
                    outcome |-> "none", result |-> 0]]
    /\ UNCHANGED <<mediaConn, promise, mnow, mediaQueries, queueVars, txVars, relayVars,
                   extractVars, usyncVars, cacheVars, preKeyVars, stanzaVars>>

\* Lines 93-122: `await mediaConn` resumes. On a rejected promise it throws
\* and the call rejects. Else media is the promise's node, or undefined; when
\* the test of line 94 holds a new promise is made, whose body has issued
\* the media_conn query, and is assigned to mediaConn; the call returns
\* mediaConn.
MediaAwaited(c) ==
    /\ mcall[c].pc = "media"
    /\ LET p == mcall[c].awaiting
           media == IF p = 0 THEN NoPromise ELSE promise[p]
           refresh == \/ p = 0
                      \/ mcall[c].forceGet
                      \/ mnow - media.fetchDate > media.ttl
       IN  /\ p # 0 => Settled(p)
           /\ IF p # 0 /\ media.status = "rejected"
              THEN /\ mcall' = [mcall EXCEPT ![c].pc = "idle", ![c].outcome = "rejected"]
                   /\ UNCHANGED <<mediaConn, promise, mediaQueries>>
              ELSE IF refresh
              THEN /\ mediaQueries < MaxMediaQueries
                   /\ mediaQueries' = mediaQueries + 1
                   /\ promise' = [promise EXCEPT ![mediaQueries + 1].status = "pending"]
                   /\ mediaConn' = mediaQueries + 1
                   /\ mcall' = [mcall EXCEPT ![c].pc = "result",
                                             ![c].awaiting = mediaQueries + 1]
              ELSE /\ mcall' = [mcall EXCEPT ![c].pc = "result", ![c].awaiting = mediaConn]
                   /\ UNCHANGED <<mediaConn, promise, mediaQueries>>
    /\ UNCHANGED <<mnow, mediaCalls, queueVars, txVars, relayVars,
                   extractVars, usyncVars, cacheVars, preKeyVars, stanzaVars>>

\* lines 96-118: the query returns and the node is built, with fetchDate now
MediaQueryReturns(p, ttl) ==
    /\ promise[p].status = "pending"
    /\ promise' = [promise EXCEPT ![p] = [status |-> "fulfilled", fetchDate |-> mnow,
                                          ttl |-> ttl]]
    /\ UNCHANGED <<mediaConn, mcall, mnow, mediaQueries, mediaCalls, queueVars, txVars,
                   relayVars, extractVars, usyncVars, cacheVars, preKeyVars, stanzaVars>>

\* lines 96-115: the query throws, or the response has no media_conn node
MediaQueryFails(p) ==
    /\ promise[p].status = "pending"
    /\ promise' = [promise EXCEPT ![p].status = "rejected"]
    /\ UNCHANGED <<mediaConn, mcall, mnow, mediaQueries, mediaCalls, queueVars, txVars,
                   relayVars, extractVars, usyncVars, cacheVars, preKeyVars, stanzaVars>>

\* line 122: the promise the call returned settles, and with it the call
MediaCallSettles(c) ==
    /\ mcall[c].pc = "result"
    /\ Settled(mcall[c].awaiting)
    /\ mcall' = [mcall EXCEPT
                   ![c].pc = "idle",
                   ![c].outcome = IF promise[mcall[c].awaiting].status = "fulfilled"
                                  THEN "resolved" ELSE "rejected",
                   ![c].result = IF promise[mcall[c].awaiting].status = "fulfilled"
                                 THEN mcall[c].awaiting ELSE 0]
    /\ UNCHANGED <<mediaConn, promise, mnow, mediaQueries, mediaCalls, queueVars, txVars,
                   relayVars, extractVars, usyncVars, cacheVars, preKeyVars, stanzaVars>>

\* a second passes
MediaTick ==
    /\ mnow < MaxMediaTime
    /\ mnow' = mnow + 1
    /\ UNCHANGED <<mediaConn, promise, mcall, mediaQueries, mediaCalls, queueVars, txVars,
                   relayVars, extractVars, usyncVars, cacheVars, preKeyVars, stanzaVars>>

NextMedia ==
    \/ \E c \in MediaCallers, forceGet \in BOOLEAN : RefreshMediaConn(c, forceGet)
    \/ \E c \in MediaCallers : MediaAwaited(c)
    \/ \E p \in Promises, ttl \in Ttls : MediaQueryReturns(p, ttl)
    \/ \E p \in Promises : MediaQueryFails(p)
    \/ \E c \in MediaCallers : MediaCallSettles(c)
    \/ MediaTick

SpecMedia == Init /\ [][NextMedia]_vars

(***************************************************************************)
(* Claims about the transaction layer                                      *)
(***************************************************************************)
\* the tag of the writes a caller makes in its current or last own transaction
OwnTag(t) == <<t, task[t].epoch>>

\* the state.set calls in flight: the data each carries
InFlight == {task[u].payload : u \in {x \in Tasks : task[x].pc \in {"commit", "dset"}}}

\* C1: when the work of an outermost transaction call has thrown, the caller
\* has received the failure and no call of the underlying store's set carries
\* a write of that transaction: none is in flight with one, and none has put
\* one into the store.
C1_ThrownTransactionNeverReachesStore ==
    \A t \in Tasks :
        (task[t].depth = 0 /\ task[t].outcome = "rejected") =>
            \A k \in Keys :
                /\ store[k] # Some(OwnTag(t))
                /\ \A data \in InFlight : data[k] # Some(OwnTag(t))

\* C2: whenever a get returns, (a) to a caller inside its own transaction it
\* returns, for every id the caller has set in that transaction, the value
\* the caller last set; (b) to a caller that is in no transaction it returns
\* no value set inside another caller's transaction that is still in progress
\* and has not reached the underlying store.
C2_ReadYourWritesAndIsolation ==
    [][\A t \in Tasks :
          task'[t].got # task[t].got =>
              \A k \in task'[t].got.ids :
                  LET v == task'[t].got.res[k]
                  IN  /\ (task[t].depth > 0 /\ task[t].wrote[k] # None) => v = task[t].wrote[k]
                      /\ task[t].depth = 0 =>
                            \A u \in Tasks \ {t} :
                                ~ /\ task[u].depth > 0
                                  /\ v = Some(OwnTag(u))
                                  /\ store[k] # v]_vars

\* C3: a state.set of the commit loop is in flight only for a caller whose
\* outermost transaction's work has returned (no transaction call of the
\* caller encloses the one that commits), and its data holds every id the
\* caller set at any nesting level, with the value the caller last set unless
\* another caller set the id since.
C3_OnlyOutermostCommitsAllLevels ==
    \A t \in Tasks :
        task[t].pc = "commit" =>
            /\ task[t].depth = 1
            /\ \A k \in Keys :
                  task[t].wrote[k] # None =>
                      /\ task[t].payload[k] # None
                      /\ \/ task[t].payload[k] = task[t].wrote[k]
                         \/ task[t].payload[k][1][1] # t

\* a caller that set values in its outer and in its nested transaction has
\* committed: the store holds what it wrote
C3_Witness ==
    \E t \in Tasks :
        /\ task[t].lastCommit = "ok"
        /\ task[t].wroteAt = {1, 2}
        /\ \E k1, k2 \in Keys : k1 # k2 /\ task[t].wrote[k1] # None /\ task[t].wrote[k2] # None
        /\ \A k \in Keys : store[k] = task[t].wrote[k]

C5_ExhaustedCommitFailsTheCall ==
    \A t \in Tasks :
        (task[t].lastCommit = "exhausted" /\ task[t].depth = 0) => task[t].outcome = "rejected"

\* C26: whenever no transaction is in progress (the counter is 0) the
\* transaction cache and the pending mutations are both empty, and the
\* counter never goes below 0.
C26_IdleLayerHoldsNothing ==
    /\ transactionsInProgress >= 0
    /\ transactionsInProgress = 0 => transactionCache = NoData /\ mutations = NoData

\* C27: when the pending mutations are dropped (the last transaction in
\* progress ends), every pending write of a transaction whose work returned
\* and whose call resolved has been passed to the underlying store's set by
\* some commit loop, whatever became of the transaction that overlapped it.
C27_ResolvedWritesWerePassedToTheStore ==
    [][\A t \in Tasks, k \in Keys :
          (/\ mutations[k] = Some(OwnTag(t))
           /\ mutations'[k] = None
           /\ task'[t].depth = 0
           /\ task'[t].outcome = "resolved") =>
              k \in task'[t].handed]_vars

\* C28: when the fetch of a get made inside a transaction completes and an id
\* it fetched has been set in the meantime (the id's pending mutation is the
\* cached value), the written value stays in the transaction cache, the get
\* returns it, and it stays the value to be committed.
C28_FetchKeepsTheValueWrittenMeanwhile ==
    [][\A t \in Tasks :
          (/\ task[t].pc = "fetch"
           /\ task[t].call.tx
           /\ task[t].depth > 0
           /\ task'[t].pc = "work"
           /\ task'[t].got.op = budget.ops) =>
              \A id \in task[t].call.fetch :
                  (mutations[id] # None /\ transactionCache[id] = mutations[id]) =>
                      /\ transactionCache'[id] = mutations[id]
                      /\ task'[t].got.res[id] = mutations[id]
                      /\ mutations'[id] = mutations[id]]_vars

\* C29: while the work of a caller's transaction has not yet returned, no
\* write of that transaction has been handed to the underlying store: none
\* is in the store and no state.set call in flight carries one, also not the
\* calls of the commit loop of another transaction that was committing when
\* this one started.
C29_NoWriteReachesStoreBeforeItsWorkReturns ==
    \A t \in Tasks :
        (task[t].depth > 0 /\ task[t].pc \in {"work", "fetch"}) =>
            \A k \in Keys :
                /\ store[k] # Some(OwnTag(t))
                /\ \A data \in InFlight : data[k] # Some(OwnTag(t))

(***************************************************************************)
(* Claims about relayMessage                                               *)
(***************************************************************************)
\* C6: every device the row of a group marks in the underlying store has been
\* sent a stanza with a <to> node carrying the group's sender-key
\* distribution message.
C6_MarkedDevicesWereSentTheKey ==
    \A g \in Keys : Row(store[g]) \subseteq skdmSent[g]

\* C7: when a relayMessage call to a group without a participant returns, its
\* stanza holds one skmsg <enc> node and <to> nodes for exactly the fan-out
\* devices the group's row in the underlying store did not mark when the call
\* was made, and the row in the underlying store now marks every fan-out
\* device.
C7_GroupRelayMarksWholeFanout ==
    [][\A t \in Tasks :
          (/\ task[t].pc # "idle"
           /\ task'[t].pc = "idle"
           /\ task'[t].outcome = "resolved"
           /\ relay'[t].at = "sent"
           /\ relay'[t].participant = "none") =>
              /\ relay'[t].skmsg = 1
              /\ relay'[t].to = Fanout(relay'[t].jid) \ relay'[t].rowBefore
              /\ Fanout(relay'[t].jid) \subseteq Row(store'[relay'[t].jid])]_vars

\* C25: in a relayMessage call to a group the updated sender-key-memory row
\* reaches the underlying store only after the call's sendNode has returned:
\* a step that changes the row of group g in the underlying store writes the
\* senderKeyMap of a relay to g whose stanza has been sent, so the row of a
\* relay that threw at or before sendNode leaves the stored row unchanged.
C25_RowIsStoredOnlyAfterTheStanzaWasSent ==
    [][\A g \in Keys :
          store'[g] # store[g] =>
              \E t \in Tasks : /\ relay[t].jid = g
                               /\ relay[t].at = "sent"
                               /\ store'[g] = Some(relay[t].senderKeyMap)]_vars

\* C31: when a relayMessage call to a group returns, with or without a
\* participant option, every device the group's row in the underlying store
\* marked when the call was made is still marked in it.
C31_RelayKeepsTheMarksOfTheRow ==
    [][\A t \in Tasks :
          (/\ task[t].pc # "idle"
           /\ task'[t].pc = "idle"
           /\ task'[t].outcome = "resolved"
           /\ relay'[t].at = "sent") =>
              relay'[t].rowBefore \subseteq Row(store'[relay'[t].jid])]_vars

(***************************************************************************)
(* Claims about the job queue                                              *)
(***************************************************************************)
JobsOf(b) == {j \in JobIds : job[j].bucket = b}

\* C8: in every bucket at most one job's work function is in progress at any
\* moment (a job's work starts only when the work of every job enqueued
\* earlier in the bucket has completed or thrown).
C8_OneWorkInProgressPerBucket ==
    \A b \in Buckets : Cardinality({j \in JobsOf(b) : job[j].work = "running"}) <= 1

\* C9: per bucket the jobs are started in the order they were enqueued, each
\* at most once, none skipped (the started sequence is a prefix of the
\* enqueued one), and when the executor has ended every enqueued job has been
\* started; this across jobs enqueued while the executor runs and across the
\* head splice at the GC limit.
C9_StartOrderIsEnqueueOrder ==
    \A b \in Buckets :
        /\ IsPrefix(startedLog[b], enqueuedLog[b])
        /\ b \notin hasBucket => startedLog[b] = enqueuedLog[b]

\* a bucket whose executor spliced the head, took jobs enqueued while it ran,
\* and ended having started more jobs than the GC limit
C9_Witness ==
    \E b \in Buckets :
        /\ splices[b] >= 1
        /\ b \notin hasBucket
        /\ Len(startedLog[b]) > gcLimit
        /\ startedLog[b] = enqueuedLog[b]

\* C10: a job whose work does not finish within the timeout has its promise
\* rejected (never resolved), and every enqueued job is eventually started,
\* also behind a job whose work never finishes.
C10_TimeoutRejectsAndQueueMovesOn ==
    \A j \in JobIds :
        /\ [](job[j].timer = "fired" => job[j].promise # "resolved")
        /\ (job[j].timer = "fired") ~> (job[j].promise = "rejected")
        /\ (job[j].promise = "pending") ~> (job[j].work # "unstarted")

\* a job timed out with its work still running, and a later job of the same
\* bucket was started
C10_Witness ==
    \E j1, j2 \in JobIds :
        /\ j1 < j2
        /\ job[j1].bucket = job[j2].bucket
        /\ job[j1].timer = "fired"
        /\ job[j1].work = "running"
        /\ job[j1].promise = "rejected"
        /\ job[j2].work # "unstarted"

(***************************************************************************)
(* Claims about the device lists                                           *)
(***************************************************************************)
\* the <device> entries of a response: item index, child index
EntriesOf(resp) ==
    {e \in (1..Len(resp)) \X (1..(MaxDevs + 1)) :
        e[2] <= Len(resp[e[1]].devices) /\ resp[e[1]].devices[e[2]].tag = "device"}

\* the own device of a decoded jid: 0 when the jid names none
OwnDevice(my) == IF my.device = Undefined THEN 0 ELSE my.device

\* C13: extractDeviceJids returns exactly the <device> entries of the
\* response, in their order, that are not (myUser, myDevice), that have a
\* device other than 0 when excludeZeroDevices is set, and that have device 0
\* or a non-empty key-index; with excludeZeroDevices set the result holds
\* neither the own device nor any device 0.
C13_ExtractKeepsExactlyTheQualifiedDevices ==
    xout # <<>> =>
        LET out == xout[1]
            kept == {e \in EntriesOf(xin.resp) :
                        LET item == xin.resp[e[1]]
                            d == item.devices[e[2]]
                        IN  /\ ~(item.user = xin.my.user /\ d.id = xin.my.device)
                            /\ (xin.excl => d.id # 0)
                            /\ (d.id = 0 \/ d.keyIndex # "")}
        IN  /\ Len(out) = Cardinality(kept)
            /\ PairsOf(out) = {[user |-> xin.resp[e[1]].user,
                                device |-> xin.resp[e[1]].devices[e[2]].id] : e \in kept}
            /\ xin.excl =>
                  \A i \in 1..Len(out) :
                      /\ out[i].device # 0
                      /\ out[i] # [user |-> xin.my.user, device |-> OwnDevice(xin.my)]

\* a response naming the own device, a device 0, a device without key-index
\* and a device with one, extracted with excludeZeroDevices set: only the last
\* is returned
C13_Witness ==
    /\ xout # <<>>
    /\ xin.excl
    /\ xin.my.device = 1
    /\ Len(xin.resp) = 2
    /\ xin.resp[1].user = "u1" /\ xin.resp[2].user = "u2"
    /\ \E i \in 1..Len(xin.resp[1].devices) : xin.resp[1].devices[i].id = 1
    /\ \E i \in 1..Len(xin.resp[2].devices) : xin.resp[2].devices[i].id = 0
    /\ xout[1] = <<[user |-> "u2", device |-> 1]>>

\* C11: a getUSyncDevices call with useCache set that has returned sent no
\* usync query when every input user had a cache entry, and otherwise sent
\* exactly one, for exactly the input users without a cache entry; it
\* returned the devices cached for the users with an entry together with the
\* devices extracted from the response.
C11_OneQueryForTheUncachedUsers ==
    \A t \in Tasks :
        LET c == usync[t]
        IN  (c.ret = "returned" /\ c.pc = "idle" /\ c.useCache) =>
                /\ c.hit \cup c.miss = UsersOf(c.jids)
                /\ c.queries = IF c.miss = {} THEN 0 ELSE 1
                /\ c.queried = c.miss
                /\ c.result = c.fromCache \cup c.extracted

\* one input user was cached and one not: one query, for the other user, and
\* the result merges the cached devices with the extracted ones
C11_Witness ==
    \E t \in Tasks :
        LET c == usync[t]
        IN  /\ c.ret = "returned" /\ c.pc = "idle" /\ c.useCache /\ ~c.ignoreZeroDevices
            /\ UsersOf(c.jids) = {"u1", "u2"}
            /\ c.hit = {"u1"} /\ c.miss = {"u2"}
            /\ c.queries = 1
            /\ c.queried = {"u2"}
            /\ c.fromCache # {} /\ c.extracted # {}
            /\ c.result = c.fromCache \cup c.extracted

\* C12: a getUSyncDevices call with ignoreZeroDevices set returns no pair
\* whose device is 0.
C12_IgnoreZeroReturnsNoDeviceZero ==
    \A t \in Tasks :
        (usync[t].ret = "returned" /\ usync[t].pc = "idle" /\ usync[t].ignoreZeroDevices) =>
            \A item \in usync[t].result : item.device # 0

(***************************************************************************)
(* Claims about the layered store                                          *)
(***************************************************************************)
\* C14: outside any transaction a get that has returned holds, for every key
\* it asked for whose last set has completed, the value of that set (no
\* value or null for a key the set deleted), whatever calls on other keys
\* were made before.
C14_GetAfterSetReturnsTheValuesSet ==
    (cop.kind = "get" /\ cop.ret = "returned") =>
        \A id \in cop.ids :
            LET last == lastSet[<<cop.type, id>>]
            IN  last # <<>> =>
                    IF last = Some("null")
                    THEN cop.got[id] \in {None, Some("null")}
                    ELSE cop.got[id] = last

\* a set of x in one key space has completed, then a set of the same id in
\* the other key space, and a get of both ids of the first key space returns
\* the value set
C14_Witness ==
    /\ cop.kind = "get" /\ cop.ret = "returned"
    /\ cop.type = "sender-key"
    /\ cop.ids = {"x", "y"}
    /\ lastSet[<<"sender-key", "x">>] = Some("a")
    /\ lastSet[<<"sender-key-memory", "x">>] = Some("null")
    /\ cop.got["x"] = Some("a")

C16_PreKeyCounters ==
    /\ creds.firstUnuploadedPreKeyId <= creds.nextPreKeyId
    /\ pk.ret = "returned" =>
          /\ creds = pk.update
          /\ pk.update.nextPreKeyId >= pk.before.nextPreKeyId
          /\ pk.update.firstUnuploadedPreKeyId >= pk.before.firstUnuploadedPreKeyId
          /\ pk.setCalls = 1
          /\ (/\ pk.before = [nextPreKeyId |-> 10, firstUnuploadedPreKeyId |-> 10]
              /\ pk.count = 5) =>
                 /\ pk.newPreKeys = 10..14
                 /\ pk.update = [nextPreKeyId |-> 15, firstUnuploadedPreKeyId |-> 15]

\* the call of the example has returned
C16_Witness ==
    /\ pk.ret = "returned"
    /\ pk.before = [nextPreKeyId |-> 10, firstUnuploadedPreKeyId |-> 10]
    /\ pk.count = 5
    /\ pk.newPreKeys = 10..14
    /\ creds = [nextPreKeyId |-> 15, firstUnuploadedPreKeyId |-> 15]

(***************************************************************************)
(* Claims about the stanza of relayMessage                                 *)
(***************************************************************************)
\* the stanza handed to sendNode and the tags of its children
Sent == send.stanza[1]
HasChild(tag) == \E i \in 1..Len(Sent.content) : Sent.content[i].tag = tag

\* the nodes createParticipantNodes made for the call
Encrypted == {send.participants[i] : i \in 1..Len(send.participants)}

\* C17: the stanza relayMessage sends has a <device-identity> child if and
\* only if one of the pairwise recipient nodes encrypted for it has the type
\* pkmsg.
C17_DeviceIdentityIffSomePkmsg ==
    send.pc = "sent" =>
        (HasChild("device-identity") <=> \E n \in Encrypted : n.type = "pkmsg")

\* a stanza with the child, made of a pkmsg node and a msg node
C17_Witness ==
    /\ send.pc = "sent"
    /\ HasChild("device-identity")
    /\ \E n \in Encrypted : n.type = "pkmsg"
    /\ \E n \in Encrypted : n.type = "msg"

\* the nodes whose <enc> is a child of the stanza itself
Inlined == {Sent.content[i].enc : i \in {j \in 1..Len(Sent.content) :
                                           /\ Sent.content[j].tag = "enc"
                                           /\ Sent.content[j].enc.type \in EncTypes}}

\* C18: a relayMessage of the category peer encrypts for a single recipient
\* device (no more than one node is encrypted), the <enc> of every node it
\* encrypted is a child of the stanza itself, and the stanza has no
\* <participants> child.
C18_PeerInlinesItsSingleNode ==
    (send.pc = "sent" /\ send.category = "peer") =>
        /\ Len(send.participants) <= 1
        /\ Encrypted \subseteq Inlined
        /\ ~HasChild("participants")

\* a jid of the sender's own user: its phone-number user or its lid user
OwnUser(jid) ==
    \/ jid.server = "s.whatsapp.net" /\ jid.user = meUser
    \/ jid.server = "lid" /\ jid.user = meLidUser

\* C19: in a relayMessage to an individual or lid destination every node
\* addressed to a device of the sender's own user is encrypted from the
\* deviceSentMessage-wrapped payload and every node addressed to a device of
\* another user from the raw message; when the destination is the sender's
\* own user, no node is encrypted from the raw message.
C19_OwnDevicesGetTheWrappedPayload ==
    (send.pc \in {"assemble", "sent"} /\ send.jid.server \in {"s.whatsapp.net", "lid"}) =>
        /\ \A n \in Encrypted :
              n.from = IF OwnUser(n.jid) THEN "meMsg" ELSE "message"
        /\ OwnUser(send.jid) => \A n \in Encrypted : n.from # "message"

\* C20: a relayMessage to status@broadcast makes no set on a
\* sender-key-memory row.
C20_StatusRelaySetsNoSenderKeyMemory ==
    send.jid = statusJid => send.keysSet = {}

\* C21: a getUSyncDevices call without useCache queries the server for every
\* input user, whatever the cache holds, and when it returns the cache entry
\* of every queried user is the device list extracted from the response for
\* that user (no entry when the list is empty): no older entry remains.
C21_NoCacheCallRefreshesEveryQueriedUser ==
    [][\A t \in Tasks :
          (usync[t].pc = "query" /\ ~usync[t].useCache /\ usync'[t].ret = "returned"
           /\ usync'[t].pc = "idle") =>
              /\ usync[t].queried = UsersOf(usync[t].jids)
              /\ \A u \in usync[t].queried :
                    LET list == {d \in usync'[t].extracted : d.user = u}
                    IN  \/ userDevicesCache'[u] = Some(list)
                        \/ list = {} /\ userDevicesCache'[u] = None]_vars

\* C22: getUSyncDevices deduplicates its input by user: a user named by
\* several input jids is in the user list of the query no more than once
\* and its cached devices are pushed to the result no more than once.
C22_InputIsDeduplicatedByUser ==
    \A t \in Tasks, u \in Users :
        usync[t].userNodes[u] <= 1 /\ usync[t].cachedPushes[u] <= 1

(***************************************************************************)
(* Claims about the cache layer                                            *)
(***************************************************************************)
\* C23: the cache layer caches no miss: after a get whose fetch found no
\* value for an id the cache has no entry for it, and the next get of the id
\* asks the wrapped store again and returns what the store holds then (a
\* value written to it in between).
C23_MissesAreNotCached ==
    /\ \A k \in TypedIds : lastMiss[k] => cache[getUniqueId(k[1], k[2])] = None
    /\ (cop.kind = "get" /\ cop.ret = "returned") =>
           \A id \in cop.missed :
               id \in cop.idsToFetch /\ cop.got[id] = cop.fetched[id]

\* a get of an id missed, the wrapped store was written, and the next get
\* of the id returns the value written
C23_Witness ==
    /\ cop.kind = "get" /\ cop.ret = "returned"
    /\ "y" \in cop.missed
    /\ cop.got["y"] = Some("c")
    /\ backing[<<cop.type, "y">>] = Some("c")

\* C30: a get through the cache layer does not return a value whose write to
\* the wrapped store failed: the layer holds a value for a key only if the
\* wrapped store holds it.
C30_FailedSetIsNotServed ==
    (cop.kind = "get" /\ cop.ret = "returned") =>
        \A id \in cop.ids :
            LET k == <<cop.type, id>>
            IN  (lastFailed[k] # None /\ backing[k] # lastFailed[k]) =>
                    cop.got[id] # lastFailed[k]

(***************************************************************************)
(* Claims about the executors of the job queue                             *)
(***************************************************************************)
\* the jobs of a bucket whose work the executor has yet to start
Waiting(b) == {j \in JobsOf(b) : job[j].work = "unstarted"}

\* C24: a bucket has at most one running executor, and an entry in the
\* bucket map exactly while it has one; the executor that finds its queue
\* drained removes the entry in the same step, so a bucket with an entry has
\* an executor awaiting a job of its queue, and every job that was enqueued
\* and not started is in the queue ahead of a running executor.
C24_OneExecutorWhileTheBucketHasAnEntry ==
    \A b \in Buckets :
        /\ executors[b] <= 1
        /\ b \in hasBucket <=> executors[b] = 1
        /\ b \in hasBucket =>
              /\ idx[b] < Len(queueAsyncBuckets[b])
              /\ job[queueAsyncBuckets[b][idx[b] + 1]].promise = "pending"
        /\ \A j \in Waiting(b) :
              /\ executors[b] = 1
              /\ \E p \in (idx[b] + 2)..Len(queueAsyncBuckets[b]) :
                    queueAsyncBuckets[b][p] = j

\* the second executor of a bucket: the first drained its queue and removed
\* the entry, a job enqueued after that started a new one, and a job
\* enqueued since then waits behind it
C24_Witness ==
    \E b \in Buckets :
        /\ b \in hasBucket /\ executors[b] = 1
        /\ Len(enqueuedLog[b]) = 3
        /\ Len(queueAsyncBuckets[b]) = 2
        /\ idx[b] = 0
        /\ Waiting(b) # {}

(***************************************************************************)
(* Claims about refreshMediaConn                                           *)
(***************************************************************************)
\* C32: a failed media-connection fetch is not cached: a refreshMediaConn
\* call made when mediaConn refers to a rejected promise, with or without
\* forceGet, issues a new media_conn query and returns the promise of that
\* query, so that it resolves when the query succeeds.
C32_FailedFetchIsNotCached ==
    [][\A c \in MediaCallers :
          (/\ mcall[c].pc = "media"
           /\ mcall[c].afterFailure
           /\ mcall'[c].pc # "media") =>
              /\ mediaQueries' = mediaQueries + 1
              /\ mcall'[c].pc = "result"
              /\ mcall'[c].awaiting = mediaQueries + 1
              /\ promise'[mediaQueries + 1].status = "pending"]_vars

====
